---- MODULE Spec2Model ----
(***************************************************************************)
(* A model of the cobrautil library: the environment-to-flag synchronizer, *)
(* the run-function stack, and the logging, tracing, gRPC and HTTP         *)
(* adapters.  A behaviour is one invocation of one cobra command on which  *)
(* one of these run functions has been installed.                          *)
(*                                                                         *)
(* Strings whose characters matter (flag names, prefixes, environment      *)
(* variable names, log levels) are sequences of one-character strings.     *)
(* Strings that the code only compares or passes on are TLA+ strings.      *)
(***************************************************************************)
EXTENDS Integers, Sequences, FiniteSets, TLC

VARIABLES
    cmdUse,      \* cobra.Command.Use of the command being run
    \* ---- SyncViperPreRunE
    syncPc,      \* "idle" | "ready" | "done"
    syncPrefix,  \* the prefix argument of SyncViperPreRunE
    flags,       \* cmd.Flags(): flag name -> [kind, value, changed]
    flags0,      \* cmd.Flags() as it was when the run function was entered
    env,         \* the process environment: variable name -> value
    venv,        \* viper's env bindings (v.env): key -> environment variable
    syncRet,     \* the run function's result
    syncMode,    \* "once" | "twice" | "dotenv": how the command synchronizes
    syncRuns,    \* how many times the run function has run
    env0,        \* the environment as it was when the run function was entered
    envFirst,    \* the environment as it was when the run function first ran
    envfilePath, \* the envfilePath given to SyncViperDotEnvPreRunE
    dotenvFiles, \* the dotenv files on disk: path -> [ok, vars]
    readRet,     \* what the command read from its flags afterwards, or Pending
    \* ---- CommandStack
    stackPc,     \* "idle" | "run" | "done"
    cmdfns,      \* the run functions given to CommandStack, each by its result
    stackIdx,    \* the loop index of the composed function
    stackCalls,  \* the indices of the run functions called so far, in order
    stackRet,    \* the composed function's result
    \* ---- cobrazerolog.Builder
    logPc,       \* "idle" | "ready" | "done"
    logB,        \* the Builder: flagPrefix, async, asyncSize, asyncPollInterval,
                 \*   hasTarget (target # nil), preRunLevel
    logFlags,    \* the command's flags by name, as RegisterFlags declared them
    isatty,      \* isatty.IsTerminal(os.Stdout.Fd())
    globalLogger,\* log.Logger
    targetGot,   \* the logger the target callback was called with, or Null
    logLine,     \* the "configured logging" event written, or Null
    logRet,      \* the run function's result
    \* ---- cobrahttp.Builder and cobragrpc.Builder
    srvKind,     \* "none" | "http" | "grpc": the adapter of this command
    srvPc,       \* "idle" | "ready" | "built" | "failed" | "done"
    srvB,        \* the Builder: flagPrefix, defaultAddr, defaultEnabled
    srvFlags,    \* the command's flags by name, as RegisterFlags declared them
    srv,         \* the server ServerFromFlags returned, or Null
    srvBuildRet, \* the error ServerFromFlags returned
    srvNet,      \* the network side: listener bound, serve loop entered,
                 \*   TLS files used, the error the serve call ended with
    srvRet,      \* the result of ListenFromFlags
    srvApi,      \* "builder": Builder's methods; "package": the package-level functions
    \* ---- cobraotel.Builder
    otelPc,         \* "idle" | "ready" | "done"
    otelB,          \* the Builder: flagPrefix, serviceName, hasLogger, preRunLevel
    otelFlags,      \* the command's flags by name, as RegisterFlags declared them
    tracerProvider, \* the global trace provider (otel.SetTracerProvider), or Null
    propagator,     \* the global propagator (otel.SetTextMapPropagator)
    otelLogger,     \* whether otel.SetLogger was called
    otelLine,       \* the "configured opentelemetry tracing" event, or Null
    otelRet,        \* the run function's result
    otelChanged,    \* the flags given on the command line (pflag.Flag.Changed)
    \* ---- SetProcLimitRunE
    procPc,         \* "idle" | "ready" | "done" | "exited"
    gomaxprocs,     \* runtime.GOMAXPROCS of the process
    procEnvSet,     \* whether the GOMAXPROCS environment variable is set
    cpuQuota,       \* the CPU quota of the cgroup: [defined, cpus] (cpus rounded down)
    procApplied,    \* the value maxprocs.Set put into effect during the call, 0 if none
    procRet,        \* the run function's result
    \* ---- NamedFlagSets
    nfsPc,          \* "idle" | "ready"
    Order,          \* nfs.Order
    FlagSets,       \* nfs.FlagSets: name -> [id, flags], flags: flag name -> [hidden]
    nfsNextId,      \* the identity of the next pflag.FlagSet allocated
    nfsReq,         \* the names FlagSet was called with, in call order
    nfsGot,         \* name -> the identities of the flag sets FlagSet returned for it
    nfsHelp,        \* the last result of templateFunc with the groups it was
                    \*   computed from, or Null
    \* ---- a library function called on its own
    callPc,         \* "idle" | the function about to be called | "done"
    callArg,        \* its arguments
    callGot         \* what it returned, or Pending

syncVars  == <<syncPc, syncPrefix, flags, flags0, venv, syncRet, syncMode, syncRuns,
               env0, envFirst, envfilePath, dotenvFiles, readRet>>
stackVars == <<stackPc, cmdfns, stackIdx, stackCalls, stackRet>>
logVars   == <<logPc, logB, logFlags, isatty, globalLogger, targetGot, logLine, logRet>>
srvVars   == <<srvKind, srvPc, srvB, srvFlags, srv, srvBuildRet, srvNet, srvRet, srvApi>>
otelVars  == <<otelPc, otelB, otelFlags, tracerProvider, propagator, otelLogger,
               otelLine, otelRet,
               otelChanged>>
procVars  == <<procPc, gomaxprocs, procEnvSet, cpuQuota, procApplied, procRet>>
nfsVars   == <<nfsPc, Order, FlagSets, nfsNextId, nfsReq, nfsGot, nfsHelp>>
callVars  == <<callPc, callArg, callGot>>
vars      == <<cmdUse, env, syncVars, stackVars, logVars, srvVars, otelVars,
               procVars, nfsVars, callVars>>

\* Errors and results are records, so that any two of them compare.
Nil     == [err |-> "nil"]         \* a nil error
Pending == [err |-> "(pending)"]   \* the function has not returned yet
Panic   == [err |-> "(panic)"]     \* the function panicked
Null    == [null |-> TRUE]         \* a nil pointer, an absent object
None    == "none"                  \* no zerolog level

(***************************************************************************)
(* Bounds                                                                  *)
(***************************************************************************)
MaxFlags == 2   \* flags on the synchronized command
MaxStack == 3
MaxCpus == 3
MaxRequests == 3
MaxRuns == 2
MaxFlagsSmall == 1

(***************************************************************************)
(* strings.ToUpper, strings.ToLower, strings.ReplaceAll on character       *)
(* sequences (ASCII letters; every other character maps to itself).        *)
(***************************************************************************)
LowerLetters == <<"a","b","c","d","e","f","g","h","i","j","k","l","m",
                  "n","o","p","q","r","s","t","u","v","w","x","y","z">>
UpperLetters == <<"A","B","C","D","E","F","G","H","I","J","K","L","M",
                  "N","O","P","Q","R","S","T","U","V","W","X","Y","Z">>

UpperChar(c) ==
    IF \E i \in DOMAIN LowerLetters : LowerLetters[i] = c
    THEN UpperLetters[CHOOSE i \in DOMAIN LowerLetters : LowerLetters[i] = c]
    ELSE c

LowerCharIdentity(c) == c

LowerChar(c) ==
    IF \E i \in DOMAIN UpperLetters : UpperLetters[i] = c
    THEN LowerLetters[CHOOSE i \in DOMAIN UpperLetters : UpperLetters[i] = c]
    ELSE c

ToUpper(s) == [i \in DOMAIN s |-> UpperChar(s[i])]
ToLower(s) == [i \in DOMAIN s |-> LowerChar(s[i])]

\* strings.ReplaceAll(s, old, new) for one-character old and new
ReplaceAll(s, old, new) == [i \in DOMAIN s |-> IF s[i] = old THEN new ELSE s[i]]

\* stringz.DefaultEmpty(val, fallback)
DefaultEmpty(val, fallback) == IF val = <<>> THEN fallback ELSE val

\* stringz.Default(val, fallback, zeroValues...)
Default(val, fallback, zeroValues) == IF val \in zeroValues THEN fallback ELSE val

(***************************************************************************)
(* IsBuiltinCommand                                                        *)
(***************************************************************************)
BuiltinUses == {"help [command]", "completion [command]"}

IsBuiltinCommandOnlyHelp(use) == use = "help [command]"

IsBuiltinCommand(use) == use \in BuiltinUses

\* the Use strings the commands of the model are given
Uses == {"mycmd", "help", "help [command]", "completion [command]"}

(***************************************************************************)
(* SyncViperPreRunE                                                        *)
(***************************************************************************)
\* prefix = strings.ReplaceAll(strings.ToUpper(prefix), "-", "_")
NormalizePrefix(prefix) == ReplaceAll(ToUpper(prefix), "-", "_")

\* suffix := strings.ToUpper(strings.ReplaceAll(f.Name, "-", "_"))
EnvSuffixNoUpper(name) == ReplaceAll(name, "-", "_")

EnvSuffix(name) == ToUpper(ReplaceAll(name, "-", "_"))

\* the second argument of v.BindEnv: prefix+"_"+suffix
EnvVarName(prefix, name) == NormalizePrefix(prefix) \o <<"_">> \o EnvSuffix(name)

\* v.AllowEmptyEnv(true)
AllowEmptyEnvOff == FALSE

AllowEmptyEnv == TRUE

\* viper.getEnv: os.LookupEnv, an empty value counting only if allowEmptyEnv
GetEnvOk(e, key) == key \in DOMAIN e /\ (AllowEmptyEnv \/ e[key] # <<>>)

\* v.BindEnv(f.Name, envkey) lower-cases the key it binds
ViperKey(name) == ToLower(name)

\* the bindings v.env after VisitAll has bound every flag; flags whose
\* names differ only in case share a key and bind it to the same variable
BindAll(prefix, fs) ==
    [k \in {ViperKey(n) : n \in DOMAIN fs} |->
        EnvVarName(prefix, CHOOSE n \in DOMAIN fs : ViperKey(n) = k)]

\* v.IsSet(f.Name): the bound environment variable is found
ViperIsSet(bindings, e, name) ==
    ViperKey(name) \in DOMAIN bindings /\ GetEnvOk(e, bindings[ViperKey(name)])

\* fmt.Sprintf("%v", v.Get(f.Name)): the bound variable's value
ViperGet(bindings, e, name) == e[bindings[ViperKey(name)]]

\* strconv.ParseBool, as pflag's bool value uses it
StrTrue  == <<"t", "r", "u", "e">>
StrFalse == <<"f", "a", "l", "s", "e">>
TrueStrings  == {<<"1">>, <<"t">>, <<"T">>, StrTrue, ToUpper(StrTrue), <<"T", "r", "u", "e">>}
FalseStrings == {<<"0">>, <<"f">>, <<"F">>, StrFalse, ToUpper(StrFalse), <<"F", "a", "l", "s", "e">>}

\* pflag Value.Set for the flag kinds of the model: [ok, value], the value
\* being the flag's String() afterwards
ValueSet(kind, s) ==
    CASE kind = "string" -> [ok |-> TRUE, value |-> s]
      [] kind = "bool" /\ s \in TrueStrings  -> [ok |-> TRUE, value |-> StrTrue]
      [] kind = "bool" /\ s \in FalseStrings -> [ok |-> TRUE, value |-> StrFalse]
      [] OTHER -> [ok |-> FALSE, value |-> <<>>]

\* cmd.Flags().Set(name, s): on success stores the value and marks the flag
\* changed; on a parse error leaves the flag as it is (the error is dropped)
FlagSetValueUnmarked(f, s) ==
    LET r == ValueSet(f.kind, s)
    IN IF r.ok THEN [f EXCEPT !.value = r.value] ELSE f

FlagSetValue(f, s) ==
    LET r == ValueSet(f.kind, s)
    IN IF r.ok THEN [f EXCEPT !.value = r.value, !.changed = TRUE] ELSE f

\* the body of the VisitAll callback for one flag
SyncFlagIgnoringChanged(bindings, e, fs, name) ==
    IF ViperIsSet(bindings, e, name)
    THEN FlagSetValue(fs[name], ViperGet(bindings, e, name))
    ELSE fs[name]

SyncFlag(bindings, e, fs, name) ==
    IF ~fs[name].changed /\ ViperIsSet(bindings, e, name)
    THEN FlagSetValue(fs[name], ViperGet(bindings, e, name))
    ELSE fs[name]

\* the values the environment gives a variable
EnvValues == {<<>>, <<"1">>, <<"x">>}

\* the run function SyncViperPreRunE(prefix) returns, applied to the command
SyncViperPreRunE ==
    /\ \/ syncPc = "ready" /\ syncMode # "dotenv"
       \/ syncPc \in {"done", "edited"} /\ syncMode = "twice" /\ syncRuns < MaxRuns
    /\ syncPc' = "done"
    /\ syncRuns' = syncRuns + 1
    /\ flags0' = flags
    /\ env0' = env
    /\ envFirst' = IF syncRuns = 0 THEN env ELSE envFirst
    /\ syncRet' = Nil
    /\ IF IsBuiltinCommand(cmdUse)
       THEN UNCHANGED <<flags, venv>>
       ELSE LET b == BindAll(syncPrefix, flags)
            IN /\ venv' = b
               /\ flags' = [n \in DOMAIN flags |-> SyncFlag(b, env, flags, n)]
    /\ UNCHANGED <<cmdUse, syncPrefix, env, syncMode, envfilePath, dotenvFiles, readRet,
                   stackVars, logVars, srvVars, otelVars, procVars, nfsVars, callVars>>

\* godotenv.Load(path): the file is read and parsed, then every variable of
\* it that the environment does not hold yet is set: [err, env]
GodotenvLoadOverriding(e, files, path) ==
    IF path \notin DOMAIN files THEN [err |-> [err |-> "open: no such file"], env |-> e]
    ELSE IF ~files[path].ok THEN [err |-> [err |-> "dotenv: cannot parse"], env |-> e]
    ELSE [err |-> Nil,
          env |-> [k \in DOMAIN e \cup DOMAIN files[path].vars |->
                      IF k \in DOMAIN files[path].vars THEN files[path].vars[k] ELSE e[k]]]

GodotenvLoad(e, files, path) ==
    IF path \notin DOMAIN files THEN [err |-> [err |-> "open: no such file"], env |-> e]
    ELSE IF ~files[path].ok THEN [err |-> [err |-> "dotenv: cannot parse"], env |-> e]
    ELSE [err |-> Nil,
          env |-> [k \in DOMAIN e \cup DOMAIN files[path].vars |->
                      IF k \in DOMAIN e THEN e[k] ELSE files[path].vars[k]]]

\* the run function SyncViperDotEnvPreRunE(prefix, envfilePath) returns,
\* applied to the command
SyncViperDotEnvPreRunE ==
    /\ syncPc = "ready" /\ syncMode = "dotenv"
    /\ syncRuns' = syncRuns + 1
    /\ flags0' = flags
    /\ env0' = env
    /\ envFirst' = IF syncRuns = 0 THEN env ELSE envFirst
    /\ LET loaded == GodotenvLoad(env, dotenvFiles, DefaultEmpty(envfilePath, <<".env">>))
       IN IF loaded.err # Nil
          THEN /\ syncPc' = "failed"
               /\ syncRet' = loaded.err
               /\ UNCHANGED <<env, flags, venv>>
          ELSE /\ syncPc' = "done"
               /\ syncRet' = Nil
               /\ env' = loaded.env
               /\ IF IsBuiltinCommand(cmdUse)
                  THEN UNCHANGED <<flags, venv>>
                  ELSE LET b == BindAll(syncPrefix, flags)
                       IN /\ venv' = b
                          /\ flags' = [n \in DOMAIN flags |-> SyncFlag(b, loaded.env, flags, n)]
    /\ UNCHANGED <<cmdUse, syncPrefix, syncMode, envfilePath, dotenvFiles, readRet,
                   stackVars, logVars, srvVars, otelVars, procVars, nfsVars, callVars>>

\* the environment is changed between two runs: one variable of a flag is
\* set, set anew or unset
Setenv ==
    /\ syncPc = "done" /\ syncMode = "twice" /\ syncRuns < MaxRuns
    /\ syncPc' = "edited"
    /\ \E key \in {EnvVarName(syncPrefix, n) : n \in DOMAIN flags} :
          \/ \E val \in EnvValues :
                /\ key \in DOMAIN env => env[key] # val
                /\ env' = [k \in DOMAIN env \cup {key} |-> IF k = key THEN val ELSE env[k]]
          \/ /\ key \in DOMAIN env
             /\ env' = [k \in DOMAIN env \ {key} |-> env[k]]
    /\ UNCHANGED <<cmdUse, syncPrefix, flags, flags0, venv, syncRet, syncMode, syncRuns,
                   env0, envFirst, envfilePath, dotenvFiles, readRet,
                   stackVars, logVars, srvVars, otelVars, procVars, nfsVars, callVars>>

\* cmd.Flags().GetString(name) / GetBool(name): the value the flag holds,
\* converted by the flag's type
FlagGet(f) == [value |-> f.value, err |-> Nil]

\* the command reads each of its flags with MustGetString or MustGetBool,
\* by the flag's type
MustGetFlags ==
    /\ syncPc = "done" /\ syncMode = "once"
    /\ syncPc' = "read"
    /\ readRet' = [n \in DOMAIN flags |-> FlagGet(flags[n])]
    /\ UNCHANGED <<cmdUse, env, syncPrefix, flags, flags0, venv, syncRet, syncMode, syncRuns,
                   env0, envFirst, envfilePath, dotenvFiles,
                   stackVars, logVars, srvVars, otelVars, procVars, nfsVars, callVars>>

(***************************************************************************)
(* CommandStack                                                            *)
(***************************************************************************)
\* one iteration of the loop: call cmdfns[stackIdx], return its error if any
StackCallNoStop ==
    /\ stackPc = "run"
    /\ stackIdx <= Len(cmdfns)
    /\ stackCalls' = Append(stackCalls, stackIdx)
    /\ stackIdx' = stackIdx + 1
    /\ IF cmdfns[stackIdx] # Nil /\ stackRet = Pending
       THEN stackRet' = cmdfns[stackIdx]
       ELSE UNCHANGED stackRet
    /\ UNCHANGED <<stackPc, cmdfns, cmdUse, env, syncVars, logVars, srvVars, otelVars, procVars, nfsVars, callVars>>

StackCall ==
    /\ stackPc = "run"
    /\ stackIdx <= Len(cmdfns)
    /\ stackCalls' = Append(stackCalls, stackIdx)
    /\ IF cmdfns[stackIdx] # Nil
       THEN /\ stackRet' = cmdfns[stackIdx]
            /\ stackPc' = "done"
            /\ UNCHANGED stackIdx
       ELSE /\ stackIdx' = stackIdx + 1
            /\ UNCHANGED <<stackRet, stackPc>>
    /\ UNCHANGED <<cmdfns, cmdUse, env, syncVars, logVars, srvVars, otelVars, procVars, nfsVars, callVars>>

\* the loop is over: return nil
StackReturn ==
    /\ stackPc = "run"
    /\ stackIdx > Len(cmdfns)
    /\ stackPc' = "done"
    /\ stackRet' = IF stackRet = Pending THEN Nil ELSE stackRet
    /\ UNCHANGED <<cmdfns, stackIdx, stackCalls, cmdUse, env, syncVars, logVars, srvVars, otelVars, procVars, nfsVars, callVars>>

(***************************************************************************)
(* PrefixJoiner and the flag lookups                                       *)
(*                                                                         *)
(* A flag name is a sequence of pieces, each a hyphen-free word or "-";    *)
(* joining is concatenation with the separator in between.                 *)
(***************************************************************************)
RECURSIVE JoinStrings(_, _)
\* stringz.Join(sep, xs...) = strings.Join(xs, sep)
JoinStrings(sep, xs) ==
    IF Len(xs) = 0 THEN <<>>
    ELSE IF Len(xs) = 1 THEN xs[1]
    ELSE xs[1] \o sep \o JoinStrings(sep, Tail(xs))

\* PrefixJoiner(prefix)(xs...)
PrefixJoiner(prefix, xs) == JoinStrings(<<"-">>, <<prefix>> \o xs)

\* MustGetString, MustGetBool, ...: the flag's value; they panic if no flag
\* of that name is registered
HasFlag(fs, key) == key \in DOMAIN fs
MustGet(fs, key) == fs[key]

(***************************************************************************)
(* cobrazerolog.Builder                                                    *)
(***************************************************************************)
StrTrace == <<"t", "r", "a", "c", "e">>
StrDebug == <<"d", "e", "b", "u", "g">>
StrInfo  == <<"i", "n", "f", "o">>
StrWarn  == <<"w", "a", "r", "n">>
StrError == <<"e", "r", "r", "o", "r">>
StrFatal == <<"f", "a", "t", "a", "l">>
StrPanic == <<"p", "a", "n", "i", "c">>

\* the cases of the level switch, and zerolog's levels in rising severity
LevelNames    == <<StrTrace, StrDebug, StrInfo, StrWarn, StrError, StrFatal, StrPanic>>
ZerologLevels == <<"TraceLevel", "DebugLevel", "InfoLevel", "WarnLevel",
                   "ErrorLevel", "FatalLevel", "PanicLevel">>

LevelIndex(zl) == CHOOSE i \in DOMAIN ZerologLevels : ZerologLevels[i] = zl

\* b.prefix(s)
LogFlagName(b, s) == PrefixJoiner(b.flagPrefix, <<s>>)

\* RegisterFlags: "$PREFIX-level" (default "info"), "$PREFIX-format" (default "auto")
LogRegisterFlags(b) ==
    [n \in {LogFlagName(b, <<"level">>), LogFlagName(b, <<"format">>)} |->
        IF n = LogFlagName(b, <<"level">>) THEN StrInfo ELSE "auto"]

\* the writer chosen from the format flag
ResolveFormatIgnoringTerminal(format, tty) ==
    IF format \in {"console", "auto"} THEN "console" ELSE "json"

ResolveFormatUnknownAsConsole(format, tty) ==
    IF format = "json" \/ (format = "auto" /\ ~tty) THEN "json" ELSE "console"

ResolveFormat(format, tty) ==
    IF format = "console" \/ (format = "auto" /\ tty) THEN "console" ELSE "json"

\* b.target != nil
UsesTargetNever(b) == FALSE

UsesTarget(b) == b.hasTarget

\* the sink without the non-blocking wrapper
PlainOutput(b, encoding) ==
    [encoding |-> encoding, async |-> FALSE, size |-> 0, pollInterval |-> "0"]

\* diode.NewWriter(output, 1000, 10*time.Millisecond, ...) when b.async
LogOutput(b, encoding) ==
    IF b.async
    THEN [encoding |-> encoding, async |-> TRUE, size |-> 1000, pollInterval |-> "10ms"]
    ELSE PlainOutput(b, encoding)

\* the level switch on the lower-cased flag value: a zerolog level, or None
\* for the default case
ParseLevelCaseSensitive(level) ==
    IF \E i \in DOMAIN LevelNames : LevelNames[i] = level
    THEN ZerologLevels[CHOOSE i \in DOMAIN LevelNames : LevelNames[i] = level]
    ELSE None

ParseLevel(level) ==
    LET lowered == ToLower(level)
    IN IF \E i \in DOMAIN LevelNames : LevelNames[i] = lowered
       THEN ZerologLevels[CHOOSE i \in DOMAIN LevelNames : LevelNames[i] = lowered]
       ELSE None

\* zerolog.GlobalLevel(), which the Builder never changes
ZerologGlobalLevel == "DebugLevel"

\* Logger.should(lvl)
LoggerWrites(l, lvl) ==
    /\ LevelIndex(lvl) >= LevelIndex(l.level)
    /\ LevelIndex(lvl) >= LevelIndex(ZerologGlobalLevel)

\* log.Logger before any configuration: JSON to stderr, every level
DefaultLogger ==
    [out |-> [encoding |-> "json", async |-> FALSE, size |-> 0, pollInterval |-> "0"],
     level |-> "DebugLevel", by |-> "zerolog"]

\* log.Logger after the run function: the logger l is a local variable until
\* the level switch has accepted the level, and goes to the target if there
\* is one
GlobalLoggerAfterOutputFirst(current, l, b) ==
    IF UsesTarget(b) THEN current
    ELSE IF l.level = None THEN [current EXCEPT !.out = l.out]
    ELSE l

GlobalLoggerAfter(current, l, b) ==
    IF l.level = None \/ UsesTarget(b) THEN current ELSE l

\* the run function Builder.RunE returns, applied to the command
LogRunE ==
    /\ logPc = "ready"
    /\ logPc' = "done"
    /\ IF IsBuiltinCommand(cmdUse)
       THEN /\ logRet' = Nil
            /\ UNCHANGED <<globalLogger, targetGot, logLine>>
       ELSE IF \/ ~HasFlag(logFlags, LogFlagName(logB, <<"format">>))
               \/ ~HasFlag(logFlags, LogFlagName(logB, <<"level">>))
            THEN /\ logRet' = Panic
                 /\ UNCHANGED <<globalLogger, targetGot, logLine>>
            ELSE LET format == MustGet(logFlags, LogFlagName(logB, <<"format">>))
                     level  == MustGet(logFlags, LogFlagName(logB, <<"level">>))
                 IN LET output  == LogOutput(logB, ResolveFormat(format, isatty))
                        lowered == ToLower(level)
                        parsed  == ParseLevel(level)
                        l       == [out |-> output, level |-> parsed, by |-> "RunE"]
                    IN IF parsed = None
                       THEN /\ logRet' = [err |-> "unknown log level", arg |-> lowered]
                            /\ globalLogger' = GlobalLoggerAfter(globalLogger, l, logB)
                            /\ UNCHANGED <<targetGot, logLine>>
                       ELSE /\ logRet' = Nil
                            /\ globalLogger' = GlobalLoggerAfter(globalLogger, l, logB)
                            /\ targetGot' = IF UsesTarget(logB) THEN l ELSE targetGot
                            /\ logLine' =
                                  IF LoggerWrites(l, logB.preRunLevel)
                                  THEN [level |-> logB.preRunLevel, format |-> format,
                                        log_level |-> lowered, async |-> logB.async,
                                        out |-> output]
                                  ELSE Null
    /\ UNCHANGED <<cmdUse, env, logB, logFlags, isatty, syncVars, stackVars, srvVars, otelVars, procVars, nfsVars, callVars>>

(***************************************************************************)
(* MustGetStringExpanded: os.ExpandEnv                                     *)
(*                                                                         *)
(* "$" followed by a name (letters and "_") is replaced by the variable's  *)
(* value, the empty string if it is unset; a "$" followed by no name stays.*)
(* The inputs of the model hold no "${...}" and no special parameters.     *)
(***************************************************************************)
IsNameChar(c) ==
    \/ c = "_"
    \/ \E i \in DOMAIN LowerLetters : LowerLetters[i] = c \/ UpperLetters[i] = c

\* getShellName: the length of the longest leading run of name characters
RECURSIVE ShellNameLen(_)
ShellNameLen(s) ==
    IF s # <<>> /\ IsNameChar(Head(s)) THEN 1 + ShellNameLen(Tail(s)) ELSE 0

\* os.Getenv
Getenv(e, name) == IF name \in DOMAIN e THEN e[name] ELSE <<>>

RECURSIVE ExpandEnv(_, _)
ExpandEnv(e, s) ==
    IF s = <<>> THEN <<>>
    ELSE IF Head(s) = "$" /\ Len(s) > 1
         THEN LET w == ShellNameLen(Tail(s))
              IN IF w = 0
                 THEN <<"$">> \o ExpandEnv(e, Tail(s))
                 ELSE Getenv(e, SubSeq(s, 2, w + 1)) \o ExpandEnv(e, SubSeq(s, w + 2, Len(s)))
         ELSE <<Head(s)>> \o ExpandEnv(e, Tail(s))

\* os.ExpandEnv(MustGetString(cmd, key))
MustGetStringExpanded(e, fs, key) == ExpandEnv(e, MustGet(fs, key))

(***************************************************************************)
(* cobrahttp.Builder and cobragrpc.Builder                                 *)
(***************************************************************************)
\* b.prefix(s)
SrvFlagName(b, s) == PrefixJoiner(b.flagPrefix, <<s>>)

FlagAddr(b)     == SrvFlagName(b, <<"addr">>)
FlagNetwork(b)  == SrvFlagName(b, <<"network">>)
FlagCertPath(b) == SrvFlagName(b, <<"tls-cert-path">>)
FlagKeyPath(b)  == SrvFlagName(b, <<"tls-key-path">>)
FlagMaxAge(b)   == SrvFlagName(b, <<"max-conn-age">>)
FlagEnabled(b)  == SrvFlagName(b, <<"enabled">>)

\* cobrahttp RegisterFlags: the flags and their defaults
HTTPRegisterFlags(b) ==
    [n \in {FlagAddr(b), FlagCertPath(b), FlagKeyPath(b), FlagEnabled(b)} |->
        CASE n = FlagAddr(b)    -> b.defaultAddr
          [] n = FlagEnabled(b) -> b.defaultEnabled
          [] OTHER              -> <<>>]

\* cobragrpc RegisterFlags: the flags and their defaults
GrpcRegisterFlags(b) ==
    [n \in {FlagAddr(b), FlagNetwork(b), FlagCertPath(b), FlagKeyPath(b),
            FlagMaxAge(b), FlagEnabled(b)} |->
        CASE n = FlagAddr(b)    -> b.defaultAddr
          [] n = FlagNetwork(b) -> "tcp"
          [] n = FlagMaxAge(b)  -> "30s"
          [] n = FlagEnabled(b) -> b.defaultEnabled
          [] OTHER              -> <<>>]

\* RegisterHTTPServerFlags / RegisterGrpcServerFlags(flags, flagPrefix,
\* serviceName, defaultAddr, defaultEnabled) of the packages http and grpc:
\* the names are joined to stringz.DefaultEmpty(flagPrefix, "http" / "grpc")
RegisteredAs(kind, flagPrefix, defaultAddr, defaultEnabled) ==
    [flagPrefix |-> DefaultEmpty(flagPrefix, <<kind>>),
     defaultAddr |-> DefaultEmpty(defaultAddr,
                                  IF kind = "http" THEN <<":8443">> ELSE <<":50051">>),
     defaultEnabled |-> defaultEnabled]

RegisterServerFlags(kind, flagPrefix, defaultAddr, defaultEnabled) ==
    IF kind = "http"
    THEN HTTPRegisterFlags(RegisteredAs(kind, flagPrefix, defaultAddr, defaultEnabled))
    ELSE GrpcRegisterFlags(RegisteredAs(kind, flagPrefix, defaultAddr, defaultEnabled))

\* the builder behind the package-level ServerFromFlags and ListenFromFlags:
\* New("", WithFlagPrefix(flagPrefix)), the prefix taken as it is given
PackageBuilder(kind, flagPrefix) ==
    [flagPrefix |-> flagPrefix,
     defaultAddr |-> IF kind = "http" THEN <<":8443">> ELSE <<":50051">>,
     defaultEnabled |-> FALSE]

\* the flags every lookup of the adapter needs
SrvFlagsPresent(kind, b, fs) ==
    DOMAIN (IF kind = "http" THEN HTTPRegisterFlags(b) ELSE GrpcRegisterFlags(b)) \subseteq DOMAIN fs

isInsecure(certPath, keyPath) == certPath = <<>> /\ keyPath = <<>>

isSecureEitherSet(certPath, keyPath) == certPath # <<>> \/ keyPath # <<>>

isSecure(certPath, keyPath) == certPath # <<>> /\ keyPath # <<>>

\* the error of the default case: fmt.Errorf("failed to start ... server:
\* must provide both --%s-tls-cert-path and --%s-tls-key-path", prefix, prefix)
MustProvideBoth(b, what) ==
    [err |-> "failed to start " \o what \o " server: must provide both",
     names |-> <<b.flagPrefix \o <<"-", "tls-cert-path">>,
                b.flagPrefix \o <<"-", "tls-key-path">>>>]

NoNet == [bound |-> FALSE, served |-> FALSE, tls |-> Null, err |-> Nil]

\* the guard of ListenFromFlags: !MustGetBool(cmd, b.prefix("enabled")) returns nil
ListenSkippedNever(b, fs) == FALSE

ListenSkipped(b, fs) == ~MustGet(fs, FlagEnabled(b))

\* ---- cobrahttp

\* Builder.ServerFromFlags: &http.Server{Addr: <addr, expanded>, Handler: b.handler}
HTTPServerFromFlags ==
    /\ srvKind = "http"
    /\ srvPc = "ready"
    /\ IF ~SrvFlagsPresent("http", srvB, srvFlags)
       THEN srvPc' = "failed" /\ srvBuildRet' = Panic /\ UNCHANGED srv
       ELSE /\ srvPc' = "built"
            /\ srv' = [Addr |-> MustGetStringExpanded(env, srvFlags, FlagAddr(srvB))]
            /\ srvBuildRet' = Nil
    /\ UNCHANGED <<srvKind, srvApi, srvB, srvFlags, srvNet, srvRet,
                   cmdUse, env, syncVars, stackVars, logVars, otelVars, procVars, nfsVars, callVars>>

\* the ways srv.ListenAndServe and srv.ListenAndServeTLS end; neither ever
\* returns nil.  ErrServerClosed follows Shutdown or Close; the listener may
\* fail to bind; the certificate pair may fail to load once the listener is
\* bound; Accept may fail for good.
ErrServerClosed == [err |-> "http: Server closed"]
ErrBind         == [err |-> "listen: address already in use"]
ErrAccept       == [err |-> "accept: too many open files"]
ErrKeyPair      == [err |-> "tls: failed to load key pair"]

HTTPServeOutcomes(tls) ==
    {[err |-> ErrServerClosed,     bound |-> TRUE,  served |-> TRUE],
     [err |-> ErrBind,             bound |-> FALSE, served |-> FALSE],
     [err |-> ErrAccept,           bound |-> TRUE,  served |-> TRUE]}
    \cup (IF tls THEN {[err |-> ErrKeyPair, bound |-> TRUE, served |-> FALSE]}
                 ELSE {})

\* if err := srv.ListenAndServe(); err != nil && errors.Is(err, http.ErrServerClosed) {
\*     return fmt.Errorf("failed while serving http: %w", err) }
\* return nil
HTTPServeResult(err, what) ==
    IF err # Nil /\ err = ErrServerClosed
    THEN [err |-> "failed while serving " \o what, cause |-> err]
    ELSE Nil

\* the switch of ListenFromFlags on the two expanded paths
HTTPTLSModeLenient(certPath, keyPath) ==
    CASE certPath = <<>> \/ keyPath = <<>> -> "http"
      [] OTHER -> "https"

HTTPTLSMode(certPath, keyPath) ==
    CASE certPath = <<>> /\ keyPath = <<>> -> "http"
      [] certPath # <<>> /\ keyPath # <<>> -> "https"
      [] OTHER -> "default"

\* Builder.ListenFromFlags
HTTPListenFromFlags ==
    /\ srvKind = "http"
    /\ srvPc = "built"
    /\ srvPc' = "done"
    /\ IF ListenSkipped(srvB, srvFlags)
       THEN srvRet' = Nil /\ UNCHANGED srvNet
       ELSE LET certPath == MustGetStringExpanded(env, srvFlags, FlagCertPath(srvB))
                keyPath  == MustGetStringExpanded(env, srvFlags, FlagKeyPath(srvB))
                mode     == HTTPTLSMode(certPath, keyPath)
            IN CASE mode = "http" ->
                      \E o \in HTTPServeOutcomes(FALSE) :
                         /\ srvNet' = [bound |-> o.bound, served |-> o.served,
                                       tls |-> Null, err |-> o.err]
                         /\ srvRet' = HTTPServeResult(o.err, "http")
                 [] mode = "https" ->
                      \E o \in HTTPServeOutcomes(TRUE) :
                         /\ srvNet' = [bound |-> o.bound, served |-> o.served,
                                       tls |-> [cert |-> certPath, key |-> keyPath],
                                       err |-> o.err]
                         /\ srvRet' = HTTPServeResult(o.err, "https")
                 [] OTHER ->
                      /\ srvRet' = MustProvideBoth(srvB, "http")
                      /\ UNCHANGED srvNet
    /\ UNCHANGED <<srvKind, srvApi, srvB, srvFlags, srv, srvBuildRet,
                   cmdUse, env, syncVars, stackVars, logVars, otelVars, procVars, nfsVars, callVars>>

\* ---- cobragrpc

\* Builder.ServerFromFlags; credentials.NewServerTLSFromFile may fail
GrpcServerFromFlags ==
    /\ srvKind = "grpc"
    /\ srvPc = "ready"
    /\ IF ~SrvFlagsPresent("grpc", srvB, srvFlags)
       THEN srvPc' = "failed" /\ srvBuildRet' = Panic /\ UNCHANGED srv
       ELSE LET maxAge   == MustGet(srvFlags, FlagMaxAge(srvB))
                certPath == MustGetStringExpanded(env, srvFlags, FlagCertPath(srvB))
                keyPath  == MustGetStringExpanded(env, srvFlags, FlagKeyPath(srvB))
            IN CASE isInsecure(certPath, keyPath) ->
                      /\ srv' = [MaxConnectionAge |-> maxAge, creds |-> Null]
                      /\ srvBuildRet' = Nil
                      /\ srvPc' = "built"
                 [] isSecure(certPath, keyPath) ->
                      \/ /\ srv' = [MaxConnectionAge |-> maxAge,
                                    creds |-> [cert |-> certPath, key |-> keyPath]]
                         /\ srvBuildRet' = Nil
                         /\ srvPc' = "built"
                      \/ /\ srvBuildRet' = ErrKeyPair
                         /\ srvPc' = "failed"
                         /\ UNCHANGED srv
                 [] OTHER ->
                      /\ srvBuildRet' = MustProvideBoth(srvB, "gRPC")
                      /\ srvPc' = "failed"
                      /\ UNCHANGED srv
    /\ UNCHANGED <<srvKind, srvApi, srvB, srvFlags, srvNet, srvRet,
                   cmdUse, env, syncVars, stackVars, logVars, otelVars, procVars, nfsVars, callVars>>

\* Builder.ListenFromFlags; net.Listen may fail, and srv.Serve returns nil
\* after Stop or GracefulStop and an error otherwise
GrpcListenFromFlags ==
    /\ srvKind = "grpc"
    /\ srvPc = "built"
    /\ srvPc' = "done"
    /\ IF ListenSkipped(srvB, srvFlags)
       THEN srvRet' = Nil /\ UNCHANGED srvNet
       ELSE \/ /\ srvNet' = [NoNet EXCEPT !.err = ErrBind]
               /\ srvRet' = [err |-> "failed to listen on addr for gRPC server",
                             cause |-> ErrBind]
            \/ \E e \in {Nil, ErrAccept} :
                  /\ srvNet' = [bound |-> TRUE, served |-> TRUE,
                                tls |-> srv.creds, err |-> e]
                  /\ srvRet' = IF e # Nil
                               THEN [err |-> "failed to serve gRPC", cause |-> e]
                               ELSE Nil
    /\ UNCHANGED <<srvKind, srvApi, srvB, srvFlags, srv, srvBuildRet,
                   cmdUse, env, syncVars, stackVars, logVars, otelVars, procVars, nfsVars, callVars>>

(***************************************************************************)
(* cobraotel.Builder                                                       *)
(*                                                                         *)
(* The provider is a character sequence (it is lower-cased); endpoints and *)
(* propagator lists are sequences of pieces, the separators "://", ":"     *)
(* and "," being pieces of their own.                                      *)
(***************************************************************************)
StrNone     == <<"n", "o", "n", "e">>
StrJaeger   == <<"j", "a", "e", "g", "e", "r">>
StrOtlpHttp == <<"o", "t", "l", "p", "h", "t", "t", "p">>
StrOtlpGrpc == <<"o", "t", "l", "p", "g", "r", "p", "c">>

\* b.prefix(s)
OtelFlagName(b, s) == PrefixJoiner(b.flagPrefix, <<s>>)

FlagProvider(b)    == OtelFlagName(b, <<"provider">>)
FlagEndpoint(b)    == OtelFlagName(b, <<"endpoint">>)
FlagServiceName(b) == OtelFlagName(b, <<"service-name">>)
FlagPropagator(b)  == OtelFlagName(b, <<"trace-propagator">>)
FlagInsecure(b)    == OtelFlagName(b, <<"insecure">>)
FlagSampleRatio(b) == OtelFlagName(b, <<"sample-ratio">>)
\* the legacy flags carry no prefix
FlagJaegerEndpoint    == <<"otel", "-", "jaeger-endpoint">>
FlagJaegerServiceName == <<"otel", "-", "jaeger-service-name">>

\* RegisterFlags: the flags and their defaults (pflag.Flag.DefValue)
OtelRegisterFlags(b) ==
    [n \in {FlagProvider(b), FlagEndpoint(b), FlagServiceName(b), FlagPropagator(b),
            FlagInsecure(b), FlagSampleRatio(b), FlagJaegerEndpoint, FlagJaegerServiceName} |->
        CASE n = FlagProvider(b)        -> StrNone
          [] n = FlagServiceName(b)     -> b.serviceName
          [] n = FlagPropagator(b)      -> <<"w3c">>
          [] n = FlagInsecure(b)        -> FALSE
          [] n = FlagSampleRatio(b)     -> "0.01"
          [] n = FlagJaegerServiceName  -> b.serviceName
          [] OTHER                      -> <<>>]

\* strings.Split(s, ",")
RECURSIVE SplitComma(_)
SplitComma(s) ==
    IF \E i \in DOMAIN s : s[i] = ","
    THEN LET i == CHOOSE k \in DOMAIN s : s[k] = "," /\ \A j \in 1..(k - 1) : s[j] # ","
         IN <<SubSeq(s, 1, i - 1)>> \o SplitComma(SubSeq(s, i + 1, Len(s)))
    ELSE <<s>>

\* url.Parse(endpoint): an error for a missing scheme before the colon,
\* else the lower-cased scheme (empty if the endpoint has none)
UrlParse(endpoint) ==
    IF endpoint # <<>> /\ endpoint[1] \in {":", "://"}
    THEN [ok |-> FALSE, Scheme |-> ""]
    ELSE IF Len(endpoint) >= 2 /\ endpoint[2] \in {":", "://"}
         THEN [ok |-> TRUE, Scheme |-> endpoint[1]]
         ELSE [ok |-> TRUE, Scheme |-> ""]

\* (insecure && parsed.Scheme == "https") || (!insecure && parsed.Scheme == "http")
SchemeContradictsNever(insecure, scheme) == FALSE

SchemeContradicts(insecure, scheme) ==
    (insecure /\ scheme = "https") \/ (~insecure /\ scheme = "http")

\* the propagators one element of the list adds
PropagatorsOfKnownOnly(p) ==
    CASE p = <<"b3">>      -> <<"b3">>
      [] p = <<"ottrace">> -> <<"ot">>
      [] p = <<"w3c">>     -> <<"baggage", "tracecontext">>
      [] OTHER             -> <<>>

PropagatorsOf(p) ==
    CASE p = <<"b3">>      -> <<"b3">>
      [] p = <<"ottrace">> -> <<"ot">>
      [] OTHER             -> <<"baggage", "tracecontext">>

\* setTracePropagators: the composite installed for the list
RECURSIVE TracePropagators(_)
TracePropagators(ps) ==
    IF ps = <<>> THEN <<>> ELSE PropagatorsOf(Head(ps)) \o TracePropagators(Tail(ps))

\* the global propagator before any configuration
DefaultPropagator == [by |-> "otel", list |-> <<>>]

\* what the provider switch of RunE comes to, for the flag values read and
\* the outcome of the exporter constructor and of resource.New:
\* [ret, exporter (Null if none was installed), endpoint, serviceName]
OtelProviderSwitch(b, fs, exporterErr, resourceErr) ==
    LET provider    == ToLower(MustGet(fs, FlagProvider(b)))
        serviceName == MustGet(fs, FlagServiceName(b))
        endpoint    == MustGet(fs, FlagEndpoint(b))
        insecure    == MustGet(fs, FlagInsecure(b))
        done(ep, sn, exp) ==
            IF exporterErr
            THEN [ret |-> [err |-> "exporter: construction failed"], exporter |-> Null,
                  endpoint |-> ep, serviceName |-> sn]
            ELSE IF resourceErr
            THEN [ret |-> [err |-> "resource: detection failed"], exporter |-> Null,
                  endpoint |-> ep, serviceName |-> sn]
            ELSE [ret |-> Nil, exporter |-> exp, endpoint |-> ep, serviceName |-> sn]
        fail(e) == [ret |-> e, exporter |-> Null, endpoint |-> endpoint,
                    serviceName |-> serviceName]
    IN CASE provider = StrNone ->
              [ret |-> Nil, exporter |-> Null, endpoint |-> endpoint,
               serviceName |-> serviceName]
         [] provider = StrJaeger ->
              LET ep == DefaultEmpty(endpoint, MustGet(fs, FlagJaegerEndpoint))
                  sn == Default(serviceName, MustGet(fs, FlagJaegerServiceName),
                                {<<>>, OtelRegisterFlags(b)[FlagServiceName(b)]})
                  parsed == UrlParse(ep)
              IN IF ep # <<>> /\ ~parsed.ok
                 THEN fail([err |-> "failed to parse endpoint"])
                 ELSE IF ep # <<>> /\ SchemeContradicts(insecure, parsed.Scheme)
                 THEN fail([err |-> "endpoint schema contradicts insecure flag",
                            scheme |-> parsed.Scheme, insecure |-> insecure])
                 ELSE done(ep, sn, [kind |-> "jaeger", endpoint |-> ep, insecure |-> FALSE])
         [] provider = StrOtlpHttp ->
              done(endpoint, serviceName,
                   [kind |-> "otlphttp", endpoint |-> endpoint, insecure |-> insecure])
         [] provider = StrOtlpGrpc ->
              done(endpoint, serviceName,
                   [kind |-> "otlpgrpc", endpoint |-> endpoint, insecure |-> insecure])
         [] OTHER ->
              fail([err |-> "unknown tracing provider", arg |-> provider])

\* the global propagator after the run function: setTracePropagators is
\* called by initOtelTracer only, after the trace provider is installed
PropagatorAfterAlways(current, exporter, propagators) ==
    [by |-> "RunE", list |-> TracePropagators(propagators)]

PropagatorAfter(current, exporter, propagators) ==
    IF exporter # Null
    THEN [by |-> "RunE", list |-> TracePropagators(propagators)]
    ELSE current

\* the run function Builder.RunE returns, applied to the command
OtelRunE ==
    /\ otelPc = "ready"
    /\ otelPc' = "done"
    /\ IF IsBuiltinCommand(cmdUse)
       THEN /\ otelRet' = Nil
            /\ UNCHANGED <<tracerProvider, propagator, otelLogger, otelLine>>
       ELSE IF ~(DOMAIN OtelRegisterFlags(otelB) \subseteq DOMAIN otelFlags)
       THEN /\ otelRet' = Panic
            /\ UNCHANGED <<tracerProvider, propagator, otelLogger, otelLine>>
       ELSE \E exporterErr \in BOOLEAN, resourceErr \in BOOLEAN :
               LET r == OtelProviderSwitch(otelB, otelFlags, exporterErr, resourceErr)
                   propagators == SplitComma(MustGet(otelFlags, FlagPropagator(otelB)))
                   sampleRatio == MustGet(otelFlags, FlagSampleRatio(otelB))
               IN /\ otelLogger' = otelB.hasLogger
                  /\ otelRet' = r.ret
                  /\ tracerProvider' =
                        IF r.exporter # Null
                        THEN [exporter |-> r.exporter, serviceName |-> r.serviceName,
                              sampleRatio |-> sampleRatio]
                        ELSE tracerProvider
                  /\ propagator' = PropagatorAfter(propagator, r.exporter, propagators)
                  /\ otelLine' =
                        IF r.ret = Nil
                        THEN [provider |-> ToLower(MustGet(otelFlags, FlagProvider(otelB))),
                              endpoint |-> r.endpoint, service |-> r.serviceName,
                              insecure |-> MustGet(otelFlags, FlagInsecure(otelB)),
                              sampleRatio |-> sampleRatio]
                        ELSE Null
    /\ UNCHANGED <<otelB, otelFlags, otelChanged, cmdUse, env, syncVars, stackVars, logVars, srvVars,
                   procVars, nfsVars, callVars>>

(***************************************************************************)
(* setResource, New                                                        *)
(***************************************************************************)
ResourceAttributes == <<"OTEL_RESOURCE_ATTRIBUTES">>
ServiceNameKey == <<"service.name">>
DeploymentEnvironmentKey == <<"deployment.environment">>

\* strings.SplitN(p, "=", 2) of the environment detector: the key and the
\* value of one pair, or not ok when the pair has no "="
SplitPair(p) ==
    IF \E i \in DOMAIN p : p[i] = "="
    THEN LET i == CHOOSE k \in DOMAIN p : p[k] = "=" /\ \A j \in 1..(k - 1) : p[j] # "="
         IN [ok |-> TRUE, key |-> SubSeq(p, 1, i - 1), value |-> SubSeq(p, i + 1, Len(p))]
    ELSE [ok |-> FALSE, key |-> <<>>, value |-> <<>>]

\* resource.Merge(a, b): the attributes of both, b's value for a common key
Merge(a, b) ==
    [k \in DOMAIN a \cup DOMAIN b |-> IF k \in DOMAIN b THEN b[k] ELSE a[k]]

\* the detector of resource.WithFromEnv(): the pairs of
\* OTEL_RESOURCE_ATTRIBUTES, the last value for a repeated key; a pair with
\* no "=" is left out and makes the detection a partial one
FromEnv(e) ==
    IF ResourceAttributes \notin DOMAIN e \/ e[ResourceAttributes] = <<>>
    THEN [attrs |-> <<>>, err |-> Nil]
    ELSE LET pairs == SplitComma(e[ResourceAttributes])
             valid == {i \in DOMAIN pairs : SplitPair(pairs[i]).ok}
             keys  == {SplitPair(pairs[i]).key : i \in valid}
             last(k) == CHOOSE i \in valid :
                           /\ SplitPair(pairs[i]).key = k
                           /\ \A j \in valid : SplitPair(pairs[j]).key = k => j <= i
         IN [attrs |-> [k \in keys |-> SplitPair(pairs[last(k)]).value],
             err |-> IF valid = DOMAIN pairs THEN Nil
                     ELSE [err |-> "partial resource: missing value"]]

\* the detector of resource.WithTelemetrySDK()
TelemetrySDK ==
    (<<"telemetry.sdk.name">> :> <<"opentelemetry">>) @@
    (<<"telemetry.sdk.language">> :> <<"go">>) @@
    (<<"telemetry.sdk.version">> :> <<"1.0.0">>)

\* setResource(serviceName): resource.New merges what its detectors give, in
\* the order of the options
setResourceOf(serviceName, e) ==
    [attrs |-> Merge(Merge(ServiceNameKey :> serviceName, FromEnv(e).attrs), TelemetrySDK),
     err |-> FromEnv(e).err]

setResource ==
    /\ callPc = "setResource"
    /\ callPc' = "done"
    /\ callGot' = setResourceOf(callArg.serviceName, env)
    /\ UNCHANGED <<callArg, cmdUse, env, syncVars, stackVars, logVars, srvVars, otelVars,
                   procVars, nfsVars>>

\* cobraotel.New(serviceName): the builder, or a panic; bi is nil when
\* debug.ReadBuildInfo() reports !ok, and bi.Main.Path is evaluated before
\* stringz.DefaultEmpty is called
NewOf(serviceName, ok, mainPath) ==
    IF ~ok /\ serviceName = <<>>
    THEN [panic |-> "no service name provided and failed to read from debug info"]
    ELSE IF ~ok
    THEN [panic |-> "invalid memory address or nil pointer dereference"]
    ELSE [flagPrefix |-> <<"otel">>, serviceName |-> DefaultEmpty(serviceName, mainPath),
          hasLogger |-> TRUE, preRunLevel |-> 0]

New ==
    /\ callPc = "New"
    /\ callPc' = "done"
    /\ callGot' = NewOf(callArg.serviceName, callArg.ok, callArg.mainPath)
    /\ UNCHANGED <<callArg, cmdUse, env, syncVars, stackVars, logVars, srvVars, otelVars,
                   procVars, nfsVars>>

(***************************************************************************)
(* RegisterFlags of two adapters on one flag set                           *)
(***************************************************************************)
\* the builder of an adapter [kind, flagPrefix]
AdapterBuilder(a) ==
    [flagPrefix |-> a.flagPrefix, serviceName |-> <<"svc">>, hasLogger |-> FALSE,
     preRunLevel |-> 0, defaultAddr |-> <<":0">>, defaultEnabled |-> FALSE]

\* the flags Builder.RegisterFlags of the adapter adds, with their defaults
AdapterRegisterFlags(a) ==
    CASE a.kind = "log"  -> LogRegisterFlags(AdapterBuilder(a))
      [] a.kind = "otel" -> OtelRegisterFlags(AdapterBuilder(a))
      [] a.kind = "http" -> HTTPRegisterFlags(AdapterBuilder(a))
      [] a.kind = "grpc" -> GrpcRegisterFlags(AdapterBuilder(a))

\* pflag.FlagSet.AddFlag panics when the name is defined already
RegisterBoth(first, second) ==
    LET fs1 == AdapterRegisterFlags(first)
        fs2 == AdapterRegisterFlags(second)
    IN IF DOMAIN fs1 \cap DOMAIN fs2 # {}
       THEN [panic |-> "flag redefined", names |-> DOMAIN fs1 \cap DOMAIN fs2]
       ELSE [flags |-> fs1 @@ fs2]

RegisterFlags ==
    /\ callPc = "RegisterFlags"
    /\ callPc' = "done"
    /\ callGot' = RegisterBoth(callArg.first, callArg.second)
    /\ UNCHANGED <<callArg, cmdUse, env, syncVars, stackVars, logVars, srvVars, otelVars,
                   procVars, nfsVars>>

(***************************************************************************)
(* SetProcLimitRunE                                                        *)
(***************************************************************************)
\* os.Exit by logger.Fatal
Exited == [err |-> "(exit)"]

\* the value maxprocs.Set derives from a defined quota: the quota rounded
\* down, and at least 1
QuotaToGOMAXPROCS(q) == IF q.cpus < 1 THEN 1 ELSE q.cpus

\* maxprocs.Set: [err, applied (0 if GOMAXPROCS was left alone), undoTo]
MaxprocsSet(current, envSet, q, fails) ==
    IF envSet THEN [err |-> Nil, applied |-> 0, undoTo |-> current]
    ELSE IF fails THEN [err |-> [err |-> "maxprocs: quota unreadable"], applied |-> 0,
                        undoTo |-> current]
    ELSE IF ~q.defined THEN [err |-> Nil, applied |-> 0, undoTo |-> current]
    ELSE [err |-> Nil, applied |-> QuotaToGOMAXPROCS(q), undoTo |-> current]

\* the run function SetProcLimitRunE returns, applied to the command
SetProcLimitRunE ==
    /\ procPc = "ready"
    /\ \E fails \in BOOLEAN :
          LET r == MaxprocsSet(gomaxprocs, procEnvSet, cpuQuota, fails)
          IN IF r.err # Nil
             THEN \* logger.Fatal(): the process exits, deferred calls do not run
                  /\ procPc' = "exited"
                  /\ procRet' = Exited
                  /\ UNCHANGED <<gomaxprocs, procApplied>>
             ELSE \* defer undo(); return nil
                  /\ procPc' = "done"
                  /\ procRet' = Nil
                  /\ procApplied' = r.applied
                  /\ gomaxprocs' = r.undoTo
    /\ UNCHANGED <<procEnvSet, cpuQuota, cmdUse, env, syncVars, stackVars, logVars,
                   srvVars, otelVars, nfsVars, callVars>>

(***************************************************************************)
(* NamedFlagSets                                                           *)
(***************************************************************************)
\* nfs.Order after FlagSet(name)
OrderAfterAlwaysAppended(order, fsets, name) == Append(order, name)

OrderAfter(order, fsets, name) ==
    IF name \in DOMAIN fsets THEN order ELSE Append(order, name)

\* nfs.FlagSets after FlagSet(name), a new flag set having the identity id
FlagSetsAfter(fsets, name, id) ==
    IF name \in DOMAIN fsets THEN fsets
    ELSE fsets @@ (name :> [id |-> id, flags |-> <<>>])

GroupNames     == {"log", "otel", "grpc"}
GroupFlagNames == {"level"}

\* nfs.FlagSet(name)
FlagSet ==
    /\ nfsPc = "ready"
    /\ Len(nfsReq) < MaxRequests
    /\ \E name \in GroupNames :
          /\ FlagSets' = FlagSetsAfter(FlagSets, name, nfsNextId)
          /\ Order' = OrderAfter(Order, FlagSets, name)
          /\ nfsNextId' = IF name \in DOMAIN FlagSets THEN nfsNextId ELSE nfsNextId + 1
          /\ nfsReq' = Append(nfsReq, name)
          /\ nfsGot' = [nfsGot EXCEPT ![name] = @ \cup {FlagSets'[name].id}]
    /\ UNCHANGED <<nfsPc, nfsHelp, cmdUse, env, syncVars, stackVars, logVars, srvVars,
                   otelVars, procVars, callVars>>

\* a flag declared on a flag set FlagSet returned, hidden (MarkFlagsHidden) or not
DeclareFlag ==
    /\ nfsPc = "ready"
    /\ \E name \in DOMAIN FlagSets, f \in GroupFlagNames, hidden \in BOOLEAN :
          /\ f \notin DOMAIN FlagSets[name].flags
          /\ FlagSets' = [FlagSets EXCEPT ![name].flags = @ @@ (f :> [hidden |-> hidden])]
    /\ UNCHANGED <<nfsPc, Order, nfsNextId, nfsReq, nfsGot, nfsHelp, cmdUse, env,
                   syncVars, stackVars, logVars, srvVars, otelVars, procVars, callVars>>

\* hasVisibleFlags(flags)
hasVisibleFlagsAny(fs) == DOMAIN fs.flags # {}

hasVisibleFlags(fs) == \E f \in DOMAIN fs.flags : ~fs.flags[f].hidden

\* wideFS.FlagUsagesWrapped(cols): the flags that are not hidden
FlagUsages(fs) == {f \in DOMAIN fs.flags : ~fs.flags[f].hidden}

\* printSections(w, 0): the sections written, in order
RECURSIVE printSections(_, _)
printSections(order, fsets) ==
    IF order = <<>> THEN <<>>
    ELSE LET name == Head(order)
             fs   == fsets[name]
         IN (IF ~hasVisibleFlags(fs) THEN <<>>
             ELSE <<[header |-> name \o " Flags:", usages |-> FlagUsages(fs)]>>)
            \o printSections(Tail(order), fsets)

\* nfs.templateFunc()
templateFunc ==
    /\ nfsPc = "ready"
    /\ nfsHelp' = [order |-> Order, flagSets |-> FlagSets,
                   sections |-> printSections(Order, FlagSets)]
    /\ UNCHANGED <<nfsPc, Order, FlagSets, nfsNextId, nfsReq, nfsGot, cmdUse, env,
                   syncVars, stackVars, logVars, srvVars, otelVars, procVars, callVars>>

(***************************************************************************)
(* Initial states                                                          *)
(***************************************************************************)
Prefixes  == {<<"p">>, <<"p", "-", "q">>}
FlagNames == {<<"a">>, <<"A">>, <<"a", "-", "b">>, <<"a", "_", "b">>}
FlagKinds == {"string", "bool"}

\* a flag as registered (default value) or as set on the command line
DefaultValue(kind) == IF kind = "bool" THEN StrFalse ELSE <<"d">>
UserValue(kind)    == IF kind = "bool" THEN StrTrue ELSE <<"u">>
FlagStates ==
    {[kind |-> k, value |-> IF c THEN UserValue(k) ELSE DefaultValue(k), changed |-> c] :
        k \in FlagKinds, c \in BOOLEAN}

SyncIdle ==
    /\ syncPc = "idle"
    /\ syncPrefix = <<>>
    /\ flags = <<>>
    /\ flags0 = <<>>
    /\ venv = <<>>
    /\ syncRet = Pending
    /\ syncMode = "once"
    /\ syncRuns = 0
    /\ env0 = <<>>
    /\ envFirst = <<>>
    /\ envfilePath = <<>>
    /\ dotenvFiles = <<>>
    /\ readRet = Pending

StackIdle ==
    /\ stackPc = "idle"
    /\ cmdfns = <<>>
    /\ stackIdx = 1
    /\ stackCalls = <<>>
    /\ stackRet = Pending

LogIdle ==
    /\ logPc = "idle"
    /\ logB = Null
    /\ logFlags = <<>>
    /\ isatty = FALSE
    /\ globalLogger = DefaultLogger
    /\ targetGot = Null
    /\ logLine = Null
    /\ logRet = Pending

SrvIdle ==
    /\ srvKind = "none"
    /\ srvPc = "idle"
    /\ srvB = Null
    /\ srvFlags = <<>>
    /\ srv = Null
    /\ srvBuildRet = Pending
    /\ srvNet = NoNet
    /\ srvRet = Pending
    /\ srvApi = "none"

OtelIdle ==
    /\ otelPc = "idle"
    /\ otelB = Null
    /\ otelFlags = <<>>
    /\ tracerProvider = Null
    /\ propagator = DefaultPropagator
    /\ otelLogger = FALSE
    /\ otelLine = Null
    /\ otelRet = Pending
    /\ otelChanged = {}

ProcIdle ==
    /\ procPc = "idle"
    /\ gomaxprocs = 1
    /\ procEnvSet = FALSE
    /\ cpuQuota = [defined |-> FALSE, cpus |-> 0]
    /\ procApplied = 0
    /\ procRet = Pending

CallIdle ==
    /\ callPc = "idle"
    /\ callArg = <<>>
    /\ callGot = Pending

NfsIdle ==
    /\ nfsPc = "idle"
    /\ Order = <<>>
    /\ FlagSets = <<>>
    /\ nfsNextId = 1
    /\ nfsReq = <<>>
    /\ nfsGot = [n \in GroupNames |-> {}]
    /\ nfsHelp = Null

InitSync ==
    /\ cmdUse \in Uses
    /\ syncPc = "ready"
    /\ syncPrefix \in Prefixes
    /\ \E S \in SUBSET FlagNames :
          /\ Cardinality(S) <= MaxFlags
          /\ flags \in [S -> FlagStates]
          /\ \E V \in SUBSET {EnvVarName(syncPrefix, n) : n \in S} :
                env \in [V -> EnvValues]
    /\ flags0 = flags
    /\ venv = <<>>
    /\ syncRet = Pending
    /\ syncMode = "once"
    /\ syncRuns = 0
    /\ env0 = env
    /\ envFirst = env
    /\ envfilePath = <<>>
    /\ dotenvFiles = <<>>
    /\ readRet = Pending
    /\ StackIdle
    /\ LogIdle
    /\ SrvIdle
    /\ OtelIdle
    /\ ProcIdle
    /\ NfsIdle
    /\ CallIdle

\* a command that runs the synchronization more than once
InitSyncTwice ==
    /\ cmdUse \in {"mycmd", "help [command]"}
    /\ syncPc = "ready"
    /\ syncPrefix = <<"p">>
    /\ \E S \in SUBSET FlagNames :
          /\ Cardinality(S) <= MaxFlagsSmall
          /\ flags \in [S -> FlagStates]
          /\ \E V \in SUBSET {EnvVarName(syncPrefix, n) : n \in S} :
                env \in [V -> EnvValues]
    /\ flags0 = flags
    /\ venv = <<>>
    /\ syncRet = Pending
    /\ syncMode = "twice"
    /\ syncRuns = 0
    /\ env0 = env
    /\ envFirst = env
    /\ envfilePath = <<>>
    /\ dotenvFiles = <<>>
    /\ readRet = Pending
    /\ StackIdle
    /\ LogIdle
    /\ SrvIdle
    /\ OtelIdle
    /\ ProcIdle
    /\ NfsIdle
    /\ CallIdle

\* the dotenv files on disk: none, or one at ".env" or at "custom.env", that
\* cannot be parsed, is empty, or gives every flag's variable the value "0"
DotenvFileSets(names) ==
    {<<>>} \cup
    {(path :> file) :
        path \in {<<".env">>, <<"custom.env">>},
        file \in {[ok |-> FALSE, vars |-> <<>>],
                  [ok |-> TRUE, vars |-> <<>>],
                  [ok |-> TRUE, vars |-> [k \in names |-> <<"0">>]]}}

\* a command that synchronizes with SyncViperDotEnvPreRunE
InitSyncDotEnv ==
    /\ cmdUse \in {"mycmd", "help [command]"}
    /\ syncPc = "ready"
    /\ syncPrefix = <<"p">>
    /\ \E S \in SUBSET FlagNames :
          /\ Cardinality(S) <= MaxFlagsSmall
          /\ flags \in [S -> FlagStates]
          /\ \E V \in SUBSET {EnvVarName(syncPrefix, n) : n \in S} :
                env \in [V -> EnvValues]
          /\ dotenvFiles \in DotenvFileSets({EnvVarName(syncPrefix, n) : n \in S})
    /\ envfilePath \in {<<>>, <<"custom.env">>}
    /\ flags0 = flags
    /\ venv = <<>>
    /\ syncRet = Pending
    /\ syncMode = "dotenv"
    /\ syncRuns = 0
    /\ env0 = env
    /\ envFirst = env
    /\ readRet = Pending
    /\ StackIdle
    /\ LogIdle
    /\ SrvIdle
    /\ OtelIdle
    /\ ProcIdle
    /\ NfsIdle
    /\ CallIdle

Errors == {[err |-> "err1"], [err |-> "err2"]}

InitStack ==
    /\ cmdUse = "mycmd"
    /\ stackPc = "run"
    /\ \E n \in 0..MaxStack : cmdfns \in [1..n -> {Nil} \cup Errors]
    /\ stackIdx = 1
    /\ stackCalls = <<>>
    /\ stackRet = Pending
    /\ env = <<>>
    /\ SyncIdle
    /\ LogIdle
    /\ SrvIdle
    /\ OtelIdle
    /\ ProcIdle
    /\ NfsIdle
    /\ CallIdle

\* the values given to the level flag and to the format flag
LevelInputs ==
    {LevelNames[i] : i \in DOMAIN LevelNames}
        \cup {ToUpper(StrWarn), <<"I", "n", "f", "o">>, <<>>,
              <<"v", "e", "r", "b", "o", "s", "e">>, StrWarn \o <<"i", "n", "g">>}
FormatInputs == {"auto", "console", "json", "xml", "Console"}

\* WithFlagPrefix, WithAsync, WithTarget, WithPreRunLevel
LogBuilders ==
    {[flagPrefix |-> p, async |-> a.on, asyncSize |-> a.size,
      asyncPollInterval |-> a.poll, hasTarget |-> t, preRunLevel |-> l] :
        p \in {<<"log">>, <<"zl">>},
        a \in {[on |-> FALSE, size |-> 0, poll |-> "0"],
               [on |-> TRUE, size |-> 1000, poll |-> "10ms"],
               [on |-> TRUE, size |-> 500, poll |-> "5ms"]},
        t \in BOOLEAN,
        l \in {"InfoLevel", "TraceLevel"}}

InitLog ==
    /\ cmdUse \in Uses
    /\ logPc = "ready"
    /\ logB \in LogBuilders
    /\ \E lv \in LevelInputs, fm \in FormatInputs :
          logFlags = [n \in DOMAIN LogRegisterFlags(logB) |->
                         IF n = LogFlagName(logB, <<"level">>) THEN lv ELSE fm]
    /\ isatty \in BOOLEAN
    /\ globalLogger = DefaultLogger
    /\ targetGot = Null
    /\ logLine = Null
    /\ logRet = Pending
    /\ env = <<>>
    /\ SyncIdle
    /\ StackIdle
    /\ SrvIdle
    /\ OtelIdle
    /\ ProcIdle
    /\ NfsIdle
    /\ CallIdle

\* the values given to the TLS path flags, and the variable they may name
PathInputs == {<<>>, <<"/", "c">>, <<"$", "D">>}
PathEnvs   == {<<>>, (<<"D">> :> <<"/", "d">>)}

\* New(serviceName, WithFlagPrefix, WithDefaultAddress, WithDefaultEnabled)
SrvBuilders(kind) ==
    {[flagPrefix |-> p, defaultAddr |-> IF kind = "http" THEN <<":8443">> ELSE <<":50051">>,
      defaultEnabled |-> FALSE] :
        p \in {IF kind = "http" THEN <<"http">> ELSE <<"grpc">>, <<"metrics">>}}

InitSrv ==
    /\ cmdUse = "mycmd"
    /\ srvKind \in {"http", "grpc"}
    /\ srvPc = "ready"
    /\ srvB \in SrvBuilders(srvKind)
    /\ env \in PathEnvs
    /\ \E en \in BOOLEAN, cert \in PathInputs, key \in PathInputs :
          LET reg == IF srvKind = "http" THEN HTTPRegisterFlags(srvB)
                                        ELSE GrpcRegisterFlags(srvB)
          IN srvFlags = [n \in DOMAIN reg |->
                            CASE n = FlagEnabled(srvB)  -> en
                              [] n = FlagCertPath(srvB) -> cert
                              [] n = FlagKeyPath(srvB)  -> key
                              [] OTHER                  -> reg[n]]
    /\ srv = Null
    /\ srvBuildRet = Pending
    /\ srvNet = NoNet
    /\ srvRet = Pending
    /\ srvApi = "builder"
    /\ SyncIdle
    /\ StackIdle
    /\ LogIdle
    /\ OtelIdle
    /\ ProcIdle
    /\ NfsIdle
    /\ CallIdle

\* the prefixes given to the package-level functions
LegacyPrefixes == {<<>>, <<"api">>}

\* a command whose flags RegisterHTTPServerFlags / RegisterGrpcServerFlags
\* registered for flagPrefix, served by the package-level ServerFromFlags and
\* ListenFromFlags called with the same flagPrefix
InitSrvPackage ==
    /\ cmdUse = "mycmd"
    /\ srvKind \in {"http", "grpc"}
    /\ srvPc = "ready"
    /\ env = <<>>
    /\ \E flagPrefix \in LegacyPrefixes, en \in BOOLEAN, cert \in PathInputs, key \in PathInputs :
          LET reg == RegisterServerFlags(srvKind, flagPrefix, <<>>, FALSE)
              rb  == RegisteredAs(srvKind, flagPrefix, <<>>, FALSE)
          IN /\ srvB = PackageBuilder(srvKind, flagPrefix)
             /\ srvFlags = [n \in DOMAIN reg |->
                               CASE n = FlagEnabled(rb)  -> en
                                 [] n = FlagCertPath(rb) -> cert
                                 [] n = FlagKeyPath(rb)  -> key
                                 [] OTHER                -> reg[n]]
    /\ srv = Null
    /\ srvBuildRet = Pending
    /\ srvNet = NoNet
    /\ srvRet = Pending
    /\ srvApi = "package"
    /\ SyncIdle
    /\ StackIdle
    /\ LogIdle
    /\ OtelIdle
    /\ ProcIdle
    /\ NfsIdle
    /\ CallIdle

\* the values given to the tracing flags
ProviderInputs ==
    {StrNone, StrJaeger, StrOtlpHttp, StrOtlpGrpc, ToUpper(StrOtlpGrpc),
     <<"z", "i", "p", "k", "i", "n">>}
EndpointInputs ==
    {<<>>, <<"http", "://", "collector">>, <<"https", "://", "collector">>,
     <<"://", "collector">>}
PropagatorInputs ==
    {<<"w3c">>, <<"b3", ",", "w3c">>, <<"ottrace", ",", "xray">>, <<"w3c", ",", "b3">>, <<>>}

\* New(serviceName, WithFlagPrefix, WithLogger)
OtelBuilders ==
    {[flagPrefix |-> <<"otel">>, serviceName |-> <<"svc">>, hasLogger |-> FALSE,
      preRunLevel |-> 0],
     [flagPrefix |-> <<"trace">>, serviceName |-> <<"svc">>, hasLogger |-> TRUE,
      preRunLevel |-> 0]}

InitOtel ==
    /\ cmdUse \in Uses
    /\ otelPc = "ready"
    /\ otelB \in OtelBuilders
    /\ \E pr \in ProviderInputs, ep \in EndpointInputs, ins \in BOOLEAN,
          pp \in PropagatorInputs, sn \in {<<"svc">>, <<"mine">>, <<>>},
          jep \in {<<>>, <<"http", "://", "jaeger">>},
          jsn \in {<<"svc">>, <<"legacy">>}, snGiven \in BOOLEAN :
          LET reg == OtelRegisterFlags(otelB)
              given(n, v) == IF v # reg[n] THEN {n} ELSE {}
          IN /\ sn # reg[FlagServiceName(otelB)] => snGiven
             /\ otelChanged =
                   given(FlagProvider(otelB), pr) \cup given(FlagEndpoint(otelB), ep)
                   \cup given(FlagInsecure(otelB), ins) \cup given(FlagPropagator(otelB), pp)
                   \cup given(FlagJaegerEndpoint, jep) \cup given(FlagJaegerServiceName, jsn)
                   \cup (IF snGiven THEN {FlagServiceName(otelB)} ELSE {})
             /\ otelFlags = [n \in DOMAIN reg |->
                CASE n = FlagProvider(otelB)      -> pr
                  [] n = FlagEndpoint(otelB)      -> ep
                  [] n = FlagInsecure(otelB)      -> ins
                  [] n = FlagPropagator(otelB)    -> pp
                  [] n = FlagServiceName(otelB)   -> sn
                  [] n = FlagJaegerEndpoint       -> jep
                  [] n = FlagJaegerServiceName    -> jsn
                  [] OTHER                        -> reg[n]]
    /\ tracerProvider = Null
    /\ propagator = DefaultPropagator
    /\ otelLogger = FALSE
    /\ otelLine = Null
    /\ otelRet = Pending
    /\ env = <<>>
    /\ SyncIdle
    /\ StackIdle
    /\ LogIdle
    /\ SrvIdle
    /\ ProcIdle
    /\ NfsIdle
    /\ CallIdle

\* the process before SetProcLimitRunE: GOMAXPROCS is the number of host
\* CPUs unless the environment variable set it
InitProc ==
    /\ cmdUse \in Uses
    /\ procPc = "ready"
    /\ gomaxprocs \in 1..MaxCpus
    /\ procEnvSet \in BOOLEAN
    /\ cpuQuota \in [defined : BOOLEAN, cpus : 0..MaxCpus]
    /\ cpuQuota.defined \/ cpuQuota.cpus = 0
    /\ procApplied = 0
    /\ procRet = Pending
    /\ env = <<>>
    /\ SyncIdle
    /\ StackIdle
    /\ LogIdle
    /\ SrvIdle
    /\ OtelIdle
    /\ NfsIdle
    /\ CallIdle

\* NewNamedFlagSets(cmd)
InitNfs ==
    /\ cmdUse = "mycmd"
    /\ nfsPc = "ready"
    /\ Order = <<>>
    /\ FlagSets = <<>>
    /\ nfsNextId = 1
    /\ nfsReq = <<>>
    /\ nfsGot = [n \in GroupNames |-> {}]
    /\ nfsHelp = Null
    /\ env = <<>>
    /\ SyncIdle
    /\ StackIdle
    /\ LogIdle
    /\ SrvIdle
    /\ OtelIdle
    /\ ProcIdle
    /\ CallIdle

\* the inputs of setResource
ResourceAttributeInputs ==
    {<<>>,
     <<"deployment.environment", "=", "test">>,
     <<"service.name", "=", "other">>,
     <<"deployment.environment", "=", "test", ",", "service.name", "=", "other">>,
     <<"deployment.environment">>,
     <<"telemetry.sdk.name", "=", "mine">>}

InitSetResource ==
    /\ cmdUse = "mycmd"
    /\ callPc = "setResource"
    /\ callArg \in [fn : {"setResource"},
                    serviceName : {<<>>, <<"testService">>, <<"testservice">>}]
    /\ callGot = Pending
    /\ env \in {<<>>} \cup {(ResourceAttributes :> v) : v \in ResourceAttributeInputs}
    /\ SyncIdle
    /\ StackIdle
    /\ LogIdle
    /\ SrvIdle
    /\ OtelIdle
    /\ ProcIdle
    /\ NfsIdle

InitNew ==
    /\ cmdUse = "mycmd"
    /\ callPc = "New"
    /\ callArg \in [fn : {"New"}, serviceName : {<<>>, <<"svc">>}, ok : BOOLEAN,
                    mainPath : {<<"github.com/me/app">>}]
    /\ callGot = Pending
    /\ env = <<>>
    /\ SyncIdle
    /\ StackIdle
    /\ LogIdle
    /\ SrvIdle
    /\ OtelIdle
    /\ ProcIdle
    /\ NfsIdle

\* two adapters of the library, registered on the flags of one command
Adapters == [kind : {"log", "otel", "http", "grpc"}, flagPrefix : {<<"a">>, <<"b">>}]

InitRegisterFlags ==
    /\ cmdUse = "mycmd"
    /\ callPc = "RegisterFlags"
    /\ callArg \in [fn : {"RegisterFlags"}, first : Adapters, second : Adapters]
    /\ callGot = Pending
    /\ env = <<>>
    /\ SyncIdle
    /\ StackIdle
    /\ LogIdle
    /\ SrvIdle
    /\ OtelIdle
    /\ ProcIdle
    /\ NfsIdle

Init == InitRegisterFlags \/ InitSetResource \/ InitNew \/ InitSrvPackage \/ InitSync \/ InitSyncTwice \/ InitSyncDotEnv \/ InitStack \/ InitLog \/ InitSrv \/ InitOtel \/ InitProc \/ InitNfs

Next ==
    \/ SyncViperPreRunE
    \/ StackCall
    \/ StackReturn
    \/ LogRunE
    \/ HTTPServerFromFlags
    \/ HTTPListenFromFlags
    \/ GrpcServerFromFlags
    \/ GrpcListenFromFlags
    \/ OtelRunE
    \/ SetProcLimitRunE
    \/ FlagSet
    \/ DeclareFlag
    \/ templateFunc
    \/ SyncViperDotEnvPreRunE
    \/ Setenv
    \/ MustGetFlags
    \/ setResource
    \/ New
    \/ RegisterFlags

Spec == Init /\ [][Next]_vars


(***************************************************************************)
(* Claims                                                                  *)
(***************************************************************************)
\* the index of the first run function that fails, 0 if none does
FirstFailure(fns) ==
    IF \E i \in DOMAIN fns : fns[i] # Nil
    THEN CHOOSE i \in DOMAIN fns : fns[i] # Nil /\ \A j \in 1..(i - 1) : fns[j] = Nil
    ELSE 0

\* C1: CommandStack runs the run functions in declaration order; the first
\* non-nil error is returned and nothing after it runs; if none fails every
\* function runs exactly once and the result is nil.
C1_StackOrderAndShortCircuit ==
    /\ stackCalls = [i \in 1..Len(stackCalls) |-> i]
    /\ \A k \in DOMAIN stackCalls : \A j \in 1..(stackCalls[k] - 1) : cmdfns[j] = Nil
    /\ stackPc = "done" =>
          LET f == FirstFailure(cmdfns)
          IN IF f = 0
             THEN stackRet = Nil /\ stackCalls = [i \in 1..Len(cmdfns) |-> i]
             ELSE stackRet = cmdfns[f] /\ stackCalls = [i \in 1..f |-> i]

C1_Witness ==
    /\ stackPc = "done"
    /\ Len(cmdfns) = 3
    /\ cmdfns[1] = Nil /\ cmdfns[2] = [err |-> "err1"] /\ cmdfns[3] = [err |-> "err2"]
    /\ stackRet = [err |-> "err1"]

\* C2: a flag marked changed before SyncViperPreRunE runs is left as it was,
\* whatever its environment variable holds (a value, the empty string, or
\* nothing).
C2_ChangedFlagsKept ==
    syncPc = "done" =>
        \A n \in DOMAIN flags0 : flags0[n].changed => flags[n] = flags0[n]

C2_Witness ==
    /\ syncPc = "done"
    /\ ~IsBuiltinCommand(cmdUse)
    /\ \E n \in DOMAIN flags0 :
          /\ flags0[n].changed
          /\ EnvVarName(syncPrefix, n) \in DOMAIN env
          /\ env[EnvVarName(syncPrefix, n)] # flags0[n].value
          /\ ValueSet(flags0[n].kind, env[EnvVarName(syncPrefix, n)]).ok
    /\ \E m \in DOMAIN flags0 : flags[m] # flags0[m]

\* the flags of a finished, non-builtin synchronization that were not marked
\* changed and whose environment variable exists
SyncedFromEnv ==
    IF syncPc = "done" /\ ~IsBuiltinCommand(cmdUse)
    THEN {n \in DOMAIN flags0 :
             ~flags0[n].changed /\ EnvVarName(syncPrefix, n) \in DOMAIN env}
    ELSE {}

C4_Original_EnvName ==
    (syncPc = "done" /\ ~IsBuiltinCommand(cmdUse)) =>
        \A n \in DOMAIN flags :
            venv[ToLower(n)] = ToUpper(syncPrefix) \o <<"_">> \o ToUpper(ReplaceAll(n, "-", "_"))

\* C4 (amended): the variable consulted for flag f under prefix p is
\* UPPER(replace(p, "-", "_")) + "_" + UPPER(replace(f, "-", "_")): the
\* hyphens of the prefix are replaced too.
C4_EnvNameHyphensReplaced ==
    (syncPc = "done" /\ ~IsBuiltinCommand(cmdUse)) =>
        \A n \in DOMAIN flags :
            /\ ToLower(n) \in DOMAIN venv
            /\ venv[ToLower(n)] =
                  ToUpper(ReplaceAll(syncPrefix, "-", "_")) \o <<"_">> \o ToUpper(ReplaceAll(n, "-", "_"))

C4_Witness ==
    /\ syncPc = "done"
    /\ ~IsBuiltinCommand(cmdUse)
    /\ syncPrefix = <<"p", "-", "q">>
    /\ <<"a", "-", "b">> \in DOMAIN flags
    /\ venv[<<"a", "-", "b">>] = <<"P", "_", "Q", "_", "A", "_", "B">>

\* C5: on a command whose Use string is "help [command]" or
\* "completion [command]", SyncViperPreRunE and the logging and tracing run
\* functions return nil and change nothing (no flag value or changed bit, no
\* process-wide logger, trace provider or propagator); a command with any
\* other Use string is processed: its unchanged string flags take their
\* environment values, a logger is installed unless the run fails, and the
\* tracing run function reaches its provider switch.
C5_BuiltinCommandsUntouched ==
    IF cmdUse \in {"help [command]", "completion [command]"}
    THEN /\ syncPc = "done" =>
               syncRet = Nil /\ flags = flags0
         /\ logPc = "done" =>
               /\ logRet = Nil
               /\ globalLogger = DefaultLogger
               /\ targetGot = Null
               /\ logLine = Null
         /\ otelPc = "done" =>
               /\ otelRet = Nil
               /\ tracerProvider = Null
               /\ propagator = DefaultPropagator
               /\ ~otelLogger
               /\ otelLine = Null
    ELSE /\ syncPc = "done" =>
               \A n \in DOMAIN flags0 :
                   (/\ ~flags0[n].changed
                    /\ flags0[n].kind = "string"
                    /\ EnvVarName(syncPrefix, n) \in DOMAIN env) => flags[n].changed
         /\ logPc = "done" =>
               logRet # Nil \/ globalLogger # DefaultLogger \/ targetGot # Null
         /\ otelPc = "done" =>
               /\ otelLogger = otelB.hasLogger
               /\ otelRet = Nil => otelLine # Null
               /\ (otelRet = Nil /\ otelFlags[FlagProvider(otelB)] # StrNone) =>
                      tracerProvider # Null

C5_Witness ==
    /\ cmdUse = "completion [command]"
    /\ otelPc = "done"
    /\ otelB.hasLogger
    /\ otelFlags[FlagProvider(otelB)] = StrOtlpGrpc
    /\ otelRet = Nil
    /\ tracerProvider = Null

\* the logger RunE handed over: to the target callback if there is one,
\* else to log.Logger
ConfiguredLogger == IF logB.hasTarget THEN targetGot ELSE globalLogger

LogLevelFlag == logFlags[LogFlagName(logB, <<"level">>)]

CertFlag == srvFlags[FlagCertPath(srvB)]
KeyFlag  == srvFlags[FlagKeyPath(srvB)]
CertPath == ExpandEnv(env, CertFlag)
KeyPath  == ExpandEnv(env, KeyFlag)
Enabled  == srvFlags[FlagEnabled(srvB)]

\* C6: with the HTTP server enabled and the TLS pair consistent, the listen
\* operation returns nil when the serve loop ends with the server-closed
\* condition and a non-nil error wrapping the cause when it ends otherwise.
C6_HTTPListenResult ==
    (/\ srvKind = "http" /\ srvPc = "done" /\ Enabled
     /\ (CertPath = <<>>) = (KeyPath = <<>>)) =>
        /\ srvNet.err = ErrServerClosed => srvRet = Nil
        /\ srvNet.err # ErrServerClosed => srvRet # Nil /\ srvRet.cause = srvNet.err

\* what the gRPC ServerFromFlags must yield for a pair of paths
GrpcServerFor(cert, key) ==
    CASE cert = <<>> /\ key = <<>> ->
            srvBuildRet = Nil /\ srv # Null /\ srv.creds = Null
      [] cert # <<>> /\ key # <<>> ->
            \/ srvBuildRet = Nil /\ srv # Null /\ srv.creds = [cert |-> cert, key |-> key]
            \/ srvBuildRet = ErrKeyPair /\ srv = Null
      [] OTHER ->
            /\ srv = Null
            /\ srvBuildRet \notin {Nil, Panic, Pending}
            /\ "names" \in DOMAIN srvBuildRet
            /\ srvBuildRet.names = <<FlagCertPath(srvB), FlagKeyPath(srvB)>>

GrpcServerBuilt ==
    srvKind = "grpc" /\ srvPc \in {"built", "failed", "done"} /\ srvBuildRet # Panic

\* C7 as stated: the three cases are decided by the two flag values.
C7_Original_TLSPolicyOnFlagValues ==
    GrpcServerBuilt => GrpcServerFor(CertFlag, KeyFlag)

\* C7 (amended): the three cases are decided by the two flag values after
\* environment expansion: both empty gives a plaintext server and no error;
\* both non-empty gives a server with credentials loaded from exactly the
\* two expanded paths (or the load error and no server); exactly one
\* non-empty gives no server and an error naming both flags.
C7_TLSPolicyOnExpandedPaths ==
    GrpcServerBuilt => GrpcServerFor(CertPath, KeyPath)

C7_Witness ==
    /\ GrpcServerBuilt
    /\ CertFlag = <<"$", "D">> /\ KeyFlag = <<"/", "c">>
    /\ <<"D">> \notin DOMAIN env
    /\ srv = Null
    /\ srvBuildRet.names = <<<<"grpc", "-", "tls-cert-path">>, <<"grpc", "-", "tls-key-path">>>>

\* the HTTP listen operation reported the configuration error and did not
\* bind or serve
HTTPConfigError ==
    /\ srvRet \notin {Nil, Panic, Pending}
    /\ "names" \in DOMAIN srvRet
    /\ srvRet.names = <<FlagCertPath(srvB), FlagKeyPath(srvB)>>
    /\ srvNet = NoNet

\* C8 as stated: exactly one TLS path flag set gives the configuration error
\* and no serving, whatever the other flags, the enabled flag included.
C8_Original_PartialTLSAlwaysError ==
    (/\ srvKind = "http" /\ srvPc = "done"
     /\ (CertFlag = <<>>) # (KeyFlag = <<>>)) => HTTPConfigError

\* C8 (amended): with the server enabled, exactly one TLS path non-empty
\* after environment expansion gives the configuration error (returned, not
\* a panic) and no serving; with the server disabled the listen operation
\* returns nil and does not serve, however the TLS flags are set.
C8_PartialTLSErrorWhenEnabled ==
    (srvKind = "http" /\ srvPc = "done") =>
        /\ (Enabled /\ (CertPath = <<>>) # (KeyPath = <<>>)) => HTTPConfigError
        /\ ~Enabled => srvRet = Nil /\ srvNet = NoNet

C8_Witness ==
    /\ srvKind = "http" /\ srvPc = "done"
    /\ Enabled
    /\ CertPath # <<>> /\ KeyPath = <<>>
    /\ HTTPConfigError

\* C9: with the enabled flag false the gRPC and HTTP listen operations
\* return nil without binding a listener or entering the serve loop; a
\* listener is bound only when enabled is true.
C9_DisabledListenIsNoOp ==
    srvKind \in {"http", "grpc"} =>
        /\ (srvPc = "done" /\ ~Enabled) => srvRet = Nil /\ srvNet = NoNet
        /\ (srvNet.bound \/ srvNet.served) => Enabled

C9_Witness ==
    /\ srvKind = "grpc" /\ srvPc = "done"
    /\ ~Enabled
    /\ srvRet = Nil
    /\ srvNet = NoNet

LogFormatFlag == logFlags[LogFlagName(logB, <<"format">>)]

\* a run of the logging run function on a non-builtin command that returned nil
LogConfigured == logPc = "done" /\ ~IsBuiltinCommand(cmdUse) /\ logRet = Nil

\* C11: format "console" gives human-readable output, "json" structured
\* output, "auto" human-readable output exactly when standard output is a
\* terminal, and every other format string structured output.
C11_FormatResolution ==
    LogConfigured =>
        LET enc == ConfiguredLogger.out.encoding
        IN /\ LogFormatFlag = "console" => enc = "console"
           /\ LogFormatFlag = "json" => enc = "json"
           /\ LogFormatFlag = "auto" => (enc = "console") = isatty
           /\ LogFormatFlag = "auto" => enc \in {"console", "json"}
           /\ LogFormatFlag \notin {"console", "json", "auto"} => enc = "json"

C11_Witness ==
    /\ LogConfigured
    /\ LogFormatFlag = "auto"
    /\ ~isatty
    /\ ConfiguredLogger.out.encoding = "json"

\* the logging run function returned an error value (it did not panic)
LogReturnedError == logRet \notin {Nil, Panic, Pending}

UnknownFormat == LogFormatFlag \notin {"auto", "console", "json"}

\* C12 as stated: an unknown format string makes the run function return an
\* error value.
C12_Original_UnknownFormatIsError ==
    (logPc = "done" /\ ~IsBuiltinCommand(cmdUse) /\ UnknownFormat) => LogReturnedError

\* C12 (amended): an unknown format string is no error: the run function
\* returns nil for it whenever the level is one of the seven severities, the
\* logger then writing structured output; the only error value it returns
\* is "unknown log level".
C12_UnknownFormatFallsBack ==
    (logPc = "done" /\ ~IsBuiltinCommand(cmdUse) /\ UnknownFormat) =>
        /\ ParseLevel(LogLevelFlag) # None =>
              logRet = Nil /\ ConfiguredLogger.out.encoding = "json"
        /\ ParseLevel(LogLevelFlag) = None =>
              logRet = [err |-> "unknown log level", arg |-> ToLower(LogLevelFlag)]

C12_Witness ==
    /\ LogConfigured
    /\ LogFormatFlag = "xml"
    /\ ConfiguredLogger.out.encoding = "json"

\* the logger is at the parsed level and writes in the resolved format
HasParsedLevelAndFormat(l) ==
    /\ l # Null
    /\ l.level = ParseLevel(LogLevelFlag)
    /\ l.out.encoding = ResolveFormat(LogFormatFlag, isatty)
    /\ l.by = "RunE"

\* C13 as stated: after every successful run the process-wide logger is at
\* the parsed level and writes in the resolved format, whatever the builder.
C13_Original_GlobalLoggerInstalled ==
    LogConfigured => HasParsedLevelAndFormat(globalLogger)

\* C13 (amended): after a successful run of a builder without a target
\* callback the process-wide logger is at the parsed level and writes in
\* the resolved format; a builder with a target callback hands that logger
\* to the callback and leaves the process-wide logger as it was.
C13_LoggerInstalledOrForwarded ==
    LogConfigured =>
        IF logB.hasTarget
        THEN HasParsedLevelAndFormat(targetGot) /\ globalLogger = DefaultLogger
        ELSE HasParsedLevelAndFormat(globalLogger) /\ targetGot = Null

C13_Witness ==
    /\ LogConfigured
    /\ ~logB.hasTarget
    /\ LogLevelFlag = StrDebug
    /\ LogFormatFlag = "json"
    /\ globalLogger.level = "DebugLevel"
    /\ globalLogger.out.encoding = "json"

\* C14: a builder made with WithAsync(size, pollInterval) logs through a
\* non-blocking writer whose buffer size is size and whose polling interval
\* is pollInterval.
C14_AsyncWriterUsesOptions ==
    (LogConfigured /\ logB.async) =>
        /\ ConfiguredLogger.out.async
        /\ ConfiguredLogger.out.size = logB.asyncSize
        /\ ConfiguredLogger.out.pollInterval = logB.asyncPollInterval

OtelProviderFlag == otelFlags[FlagProvider(otelB)]
OtelEndpointFlag == otelFlags[FlagEndpoint(otelB)]
OtelInsecureFlag == otelFlags[FlagInsecure(otelB)]

\* the tracing run function ran on a non-builtin command
OtelRan == otelPc = "done" /\ ~IsBuiltinCommand(cmdUse)

\* no trace provider and no propagator was installed
NothingInstalled == tracerProvider = Null /\ propagator = DefaultPropagator

\* the exporter kind a lower-cased provider name selects
ExporterKind(p) ==
    CASE p = StrJaeger   -> "jaeger"
      [] p = StrOtlpHttp -> "otlphttp"
      [] p = StrOtlpGrpc -> "otlpgrpc"

\* C15: the provider name is compared case-insensitively: "none" installs
\* nothing and returns nil; "jaeger", "otlphttp" and "otlpgrpc" install a
\* trace provider over their own exporter when the run succeeds, and when it
\* fails (an exporter construction error among the causes) the error is
\* returned and nothing is installed; every other name returns "unknown
\* tracing provider" with nothing installed.
C15_ProviderSelection ==
    OtelRan =>
        LET p == ToLower(OtelProviderFlag)
        IN /\ otelRet # Panic
           /\ p = StrNone => otelRet = Nil /\ NothingInstalled
           /\ p \in {StrJaeger, StrOtlpHttp, StrOtlpGrpc} =>
                 IF otelRet = Nil
                 THEN /\ tracerProvider # Null
                      /\ tracerProvider.exporter.kind = ExporterKind(p)
                 ELSE NothingInstalled
           /\ p \notin {StrNone, StrJaeger, StrOtlpHttp, StrOtlpGrpc} =>
                 /\ otelRet = [err |-> "unknown tracing provider", arg |-> p]
                 /\ NothingInstalled
           /\ OtelProviderFlag = <<"O", "T", "L", "P", "G", "R", "P", "C">> =>
                 /\ otelRet.err # "unknown tracing provider"
                 /\ otelRet = Nil => tracerProvider.exporter.kind = "otlpgrpc"

C15_Witness ==
    /\ OtelRan
    /\ OtelProviderFlag = <<"O", "T", "L", "P", "G", "R", "P", "C">>
    /\ otelRet = Nil
    /\ tracerProvider.exporter.kind = "otlpgrpc"

OtelPropagatorFlag == otelFlags[FlagPropagator(otelB)]

\* C16: the propagator list is mapped token by token, in order: "b3" adds
\* b3, "ottrace" adds ottrace, "w3c" and every unknown token (the empty
\* token included) add the pair baggage, trace-context; the installed
\* composite is the concatenation.
C16_PropagatorsTokenByToken ==
    (OtelRan /\ tracerProvider # Null) =>
        /\ propagator.by = "RunE"
        /\ OtelPropagatorFlag = <<"b3", ",", "w3c">> =>
              propagator.list = <<"b3", "baggage", "tracecontext">>
        /\ OtelPropagatorFlag = <<"w3c", ",", "b3">> =>
              propagator.list = <<"baggage", "tracecontext", "b3">>
        /\ OtelPropagatorFlag = <<"ottrace", ",", "xray">> =>
              propagator.list = <<"ot", "baggage", "tracecontext">>
        /\ OtelPropagatorFlag = <<"w3c">> =>
              propagator.list = <<"baggage", "tracecontext">>
        /\ OtelPropagatorFlag = <<>> =>
              propagator.list = <<"baggage", "tracecontext">>

C16_Witness ==
    /\ OtelRan
    /\ OtelPropagatorFlag = <<"b3", ",", "w3c">>
    /\ propagator = [by |-> "RunE", list |-> <<"b3", "baggage", "tracecontext">>]

\* the scheme of an endpoint contradicts the insecure flag
Contradiction(endpoint, insecure) ==
    /\ Len(endpoint) >= 2
    /\ endpoint[2] = "://"
    /\ \/ insecure /\ endpoint[1] = "https"
       \/ ~insecure /\ endpoint[1] = "http"

SchemaError ==
    /\ otelRet \notin {Nil, Panic, Pending}
    /\ otelRet.err = "endpoint schema contradicts insecure flag"

\* C17 as stated: under every provider but "none", an endpoint whose scheme
\* contradicts the insecure flag gives an error and no trace provider.
C17_Original_SchemeCheckedForEveryProvider ==
    (/\ OtelRan
     /\ ToLower(OtelProviderFlag) # StrNone
     /\ Contradiction(OtelEndpointFlag, OtelInsecureFlag)) =>
        otelRet # Nil /\ tracerProvider = Null

\* C17 (amended): under the provider "jaeger", when the scheme of the
\* endpoint in effect (the endpoint flag, or the legacy otel-jaeger-endpoint
\* flag if that one is empty) contradicts the insecure flag, the run
\* function returns the schema error and installs no trace provider; under
\* "otlphttp" and "otlpgrpc" the scheme is not compared with the flag and
\* the run never ends with the schema error.
C17_SchemeCheckedForJaeger ==
    OtelRan =>
        LET p  == ToLower(OtelProviderFlag)
            ep == IF OtelEndpointFlag = <<>> THEN otelFlags[FlagJaegerEndpoint]
                                             ELSE OtelEndpointFlag
        IN /\ (p = StrJaeger /\ Contradiction(ep, OtelInsecureFlag)) =>
                 SchemaError /\ NothingInstalled
           /\ p \in {StrOtlpHttp, StrOtlpGrpc} => ~SchemaError

C17_Witness ==
    /\ OtelRan
    /\ OtelProviderFlag = StrJaeger
    /\ OtelEndpointFlag = <<"https", "://", "collector">>
    /\ OtelInsecureFlag
    /\ SchemaError
    /\ tracerProvider = Null

\* C18: after SetProcLimitRunE returned nil, having derived a value from
\* the detected CPU quota, GOMAXPROCS is that value for the workload that
\* runs afterwards.
C18_ProcLimitStays ==
    (/\ procPc = "done" /\ procRet = Nil
     /\ ~procEnvSet /\ cpuQuota.defined) =>
        gomaxprocs = (IF cpuQuota.cpus < 1 THEN 1 ELSE cpuQuota.cpus)

\* the names of a sequence, each once, in order of first occurrence
RECURSIVE FirstOccurrences(_)
FirstOccurrences(seq) ==
    IF seq = <<>> THEN <<>>
    ELSE LET front == FirstOccurrences(SubSeq(seq, 1, Len(seq) - 1))
             last  == seq[Len(seq)]
         IN IF \E i \in DOMAIN front : front[i] = last THEN front
            ELSE Append(front, last)

\* C19: after any sequence of FlagSet(name) calls, Order holds each
\* requested name exactly once, in order of first request; its names are
\* exactly the keys of FlagSets; and every call with one name returned the
\* same flag set.
C19_OrderAndFlagSetsAgree ==
    nfsPc = "ready" =>
        /\ Order = FirstOccurrences(nfsReq)
        /\ \A i, j \in DOMAIN Order : Order[i] = Order[j] => i = j
        /\ {Order[i] : i \in DOMAIN Order} = DOMAIN FlagSets
        /\ \A n \in GroupNames :
              /\ Cardinality(nfsGot[n]) <= 1
              /\ n \in DOMAIN FlagSets => nfsGot[n] = {FlagSets[n].id}
              /\ n \notin DOMAIN FlagSets => nfsGot[n] = {}

C19_Witness ==
    /\ nfsReq = <<"otel", "log", "otel">>
    /\ Order = <<"otel", "log">>
    /\ DOMAIN FlagSets = {"otel", "log"}
    /\ nfsGot["otel"] = {1}

\* the headers of the sections of the last help text
HelpHeaders == [i \in DOMAIN nfsHelp.sections |-> nfsHelp.sections[i].header]

\* the groups, of those the help text was computed from, that declare a
\* flag that is not hidden
VisibleGroups ==
    SelectSeq(nfsHelp.order,
              LAMBDA n : \E f \in DOMAIN nfsHelp.flagSets[n].flags :
                            ~nfsHelp.flagSets[n].flags[f].hidden)

\* C20 as stated: the help text has one "<name> Flags:" section for every
\* group, in insertion order.
C20_Original_SectionForEveryGroup ==
    nfsHelp # Null =>
        HelpHeaders = [i \in DOMAIN nfsHelp.order |-> nfsHelp.order[i] \o " Flags:"]

\* C20 (amended): the help text has one "<name> Flags:" section for every
\* group that declares at least one flag that is not hidden, in the groups'
\* insertion order, listing the group's flags that are not hidden; a group
\* with no flag, or with hidden flags only, has no section.
C20_SectionForEveryVisibleGroup ==
    nfsHelp # Null =>
        /\ HelpHeaders = [i \in DOMAIN VisibleGroups |-> VisibleGroups[i] \o " Flags:"]
        /\ \A i \in DOMAIN VisibleGroups :
              nfsHelp.sections[i].usages =
                 {f \in DOMAIN nfsHelp.flagSets[VisibleGroups[i]].flags :
                     ~nfsHelp.flagSets[VisibleGroups[i]].flags[f].hidden}

C20_Witness ==
    /\ nfsHelp # Null
    /\ nfsHelp.order = <<"otel", "log", "grpc">>
    /\ nfsHelp.flagSets["otel"].flags = ("level" :> [hidden |-> TRUE])
    /\ nfsHelp.flagSets["log"].flags = ("level" :> [hidden |-> FALSE])
    /\ nfsHelp.flagSets["grpc"].flags = ("level" :> [hidden |-> FALSE])
    /\ HelpHeaders = <<"log Flags:", "grpc Flags:">>


(***************************************************************************)
(* Claims about SyncViperDotEnvPreRunE, repeated synchronization and the   *)
(* reading of synchronized flags                                           *)
(***************************************************************************)
\* the dotenv file SyncViperDotEnvPreRunE loads
DotEnvPath == IF envfilePath = <<>> THEN <<".env">> ELSE envfilePath

DotEnvLoadable == DotEnvPath \in DOMAIN dotenvFiles /\ dotenvFiles[DotEnvPath].ok

\* the environment the run function was entered with, extended by the file
DotEnvExtended ==
    [k \in DOMAIN env0 \cup DOMAIN dotenvFiles[DotEnvPath].vars |->
        IF k \in DOMAIN env0 THEN env0[k] ELSE dotenvFiles[DotEnvPath].vars[k]]

DotEnvRan == syncMode = "dotenv" /\ syncPc \in {"done", "failed"}

\* C21: SyncViperDotEnvPreRunE loads envfilePath, or ".env" when envfilePath
\* is empty, before it synchronizes: when the file cannot be loaded the run
\* function returns the load error and no flag and no variable is modified;
\* when it can, the run function returns nil, the environment is the one it
\* was entered with extended by the file, and the flags are those that
\* SyncViperPreRunE(prefix) gives on that environment.
C21_DotEnvLoadedBeforeSync ==
    DotEnvRan =>
        IF ~DotEnvLoadable
        THEN /\ syncRet \notin {Nil, Pending}
             /\ flags = flags0
             /\ env = env0
        ELSE /\ syncRet = Nil
             /\ env = DotEnvExtended
             /\ flags = IF cmdUse \in BuiltinUses THEN flags0
                        ELSE [n \in DOMAIN flags0 |->
                                SyncFlag(BindAll(syncPrefix, flags0), DotEnvExtended, flags0, n)]

\* the file gave a variable that the environment did not hold, and a flag
\* took its value
C21_Witness ==
    /\ DotEnvRan
    /\ DotEnvLoadable
    /\ env # env0
    /\ \E n \in DOMAIN flags : flags[n] # flags0[n] /\ flags[n].value = <<"0">>


\* the environment holds, for bool flag n, a value that is not a boolean
MalformedFor(n) ==
    /\ flags0[n].kind = "bool"
    /\ ~flags0[n].changed
    /\ EnvVarName(syncPrefix, n) \in DOMAIN env0
    /\ env0[EnvVarName(syncPrefix, n)] \notin TrueStrings \cup FalseStrings

\* C23: SyncViperPreRunE returns nil for every environment and flag set, and
\* a value of the environment that is malformed for the type of its flag is
\* surfaced as an error when the command reads that flag afterwards.
C23_MalformedValueSurfaced ==
    /\ (syncMode = "once" /\ syncPc \in {"done", "read"} => syncRet = Nil)
    /\ (syncPc = "read" /\ cmdUse \notin BuiltinUses =>
            \A n \in DOMAIN flags0 : MalformedFor(n) => readRet[n].err # Nil)


TwiceDone == syncMode = "twice" /\ syncRuns = 2 /\ syncPc = "done"

\* the value the variable of flag n had when the synchronization first ran
\* is one the flag accepts
FirstAssignable(n) ==
    /\ EnvVarName(syncPrefix, n) \in DOMAIN envFirst
    /\ \/ flags[n].kind = "string"
       \/ envFirst[EnvVarName(syncPrefix, n)] \in TrueStrings \cup FalseStrings

FirstValue(n) ==
    LET s == envFirst[EnvVarName(syncPrefix, n)]
    IN CASE flags[n].kind = "string" -> s
         [] s \in TrueStrings -> StrTrue
         [] OTHER -> StrFalse

\* C24 as stated: the second run of SyncViperPreRunE leaves every flag
\* unchanged, whatever happened to the environment between the two runs.
C24_Original_SecondRunChangesNothing ==
    TwiceDone => \A n \in DOMAIN flags : flags[n].value = flags0[n].value

\* C24, amended: after two runs of SyncViperPreRunE, a flag that was marked
\* changed before the second run is as it was; a flag whose variable held an
\* acceptable value at the first run is marked changed and holds that value
\* or the one the user gave, whatever the variable holds at the second run;
\* and when the environment was not modified, the second run changes nothing.
C24_FirstAssignedValueWins ==
    TwiceDone =>
        /\ \A n \in DOMAIN flags : flags0[n].changed => flags[n] = flags0[n]
        /\ cmdUse \notin BuiltinUses =>
              \A n \in DOMAIN flags :
                  FirstAssignable(n) =>
                      /\ flags[n].changed
                      /\ flags[n].value \in {FirstValue(n), UserValue(flags[n].kind)}
        /\ env0 = envFirst => flags = flags0

\* the first run assigned the flag, the variable was then given another
\* value, and the second run kept the first one
C24_Witness ==
    /\ TwiceDone
    /\ cmdUse \notin BuiltinUses
    /\ \E n \in DOMAIN flags :
          /\ FirstAssignable(n)
          /\ EnvVarName(syncPrefix, n) \in DOMAIN env0
          /\ env0[EnvVarName(syncPrefix, n)] # envFirst[EnvVarName(syncPrefix, n)]
          /\ flags[n].value = FirstValue(n)
          /\ flags[n].value # env0[EnvVarName(syncPrefix, n)]
          /\ flags[n].value # UserValue(flags[n].kind)


(***************************************************************************)
(* Claims about setResource and New                                        *)
(***************************************************************************)
Called(fn) == callPc = "done" /\ callArg.fn = fn

\* the pairs OTEL_RESOURCE_ATTRIBUTES gives
GivenPairs ==
    IF ResourceAttributes \in DOMAIN env /\ env[ResourceAttributes] # <<>>
    THEN {SplitPair(p) : p \in {SplitComma(env[ResourceAttributes])[i] :
                                  i \in DOMAIN SplitComma(env[ResourceAttributes])}}
    ELSE {}

\* C22: the resource descriptor setResource(serviceName) builds carries the
\* service-name attribute with the value serviceName, and every attribute
\* that OTEL_RESOURCE_ATTRIBUTES gives; when the variable is unset it carries
\* no deployment.environment attribute.
C22_ResourceCarriesServiceNameAndEnv ==
    Called("setResource") =>
        /\ ServiceNameKey \in DOMAIN callGot.attrs
        /\ callGot.attrs[ServiceNameKey] = callArg.serviceName
        /\ \A p \in GivenPairs :
              p.ok => p.key \in DOMAIN callGot.attrs /\ callGot.attrs[p.key] = p.value
        /\ ResourceAttributes \notin DOMAIN env =>
              DeploymentEnvironmentKey \notin DOMAIN callGot.attrs

\* C29: cobraotel.New(serviceName) with a non-empty serviceName returns a
\* builder whose service name is serviceName, whether or not the build
\* information can be read; it panics only when serviceName is empty and the
\* build information is unavailable.
C29_NewPanicsOnlyWithoutAnyName ==
    Called("New") =>
        /\ callArg.serviceName # <<>> =>
              /\ "panic" \notin DOMAIN callGot
              /\ "serviceName" \in DOMAIN callGot
              /\ callGot.serviceName = callArg.serviceName
        /\ "panic" \in DOMAIN callGot => callArg.serviceName = <<>> /\ ~callArg.ok


(***************************************************************************)
(* Claims about what the run functions leave alone                         *)
(***************************************************************************)
UnknownLevelReturned ==
    logPc = "done" /\ "err" \in DOMAIN logRet /\ logRet.err = "unknown log level"

\* C25: when the run function of the logging adapter returns the
\* unknown-log-level error, log.Logger has the output and the level it had
\* before the call, the target was not called, and nothing was logged.
C25_UnknownLevelLeavesLoggers ==
    UnknownLevelReturned =>
        /\ globalLogger = DefaultLogger
        /\ targetGot = Null
        /\ logLine = Null

\* the level is unknown where the format flag asks for console output and
\* the builder has no target
C25_Witness ==
    /\ UnknownLevelReturned
    /\ LogFormatFlag = "console"
    /\ ~logB.hasTarget
    /\ \A i \in DOMAIN LevelNames : LevelNames[i] # logRet.arg


\* C26: with the provider "none" the tracing run function returns nil and
\* installs neither a trace provider nor a propagator, whatever the
\* trace-propagator flag holds; and in every run the global propagator is
\* replaced only if a trace provider is installed too.
C26_NoneInstallsNothing ==
    /\ (OtelRan /\ otelRet # Panic /\ ToLower(OtelProviderFlag) = StrNone) =>
            otelRet = Nil /\ NothingInstalled
    /\ propagator # DefaultPropagator => tracerProvider # Null

\* provider "none" with a trace-propagator flag that asks for b3
C26_Witness ==
    /\ OtelRan
    /\ otelRet = Nil
    /\ OtelProviderFlag = StrNone
    /\ OtelPropagatorFlag = <<"b3", ",", "w3c">>
    /\ NothingInstalled


\* C30: with the provider "jaeger", the endpoint used is <prefix>-endpoint
\* when that is not empty and otel-jaeger-endpoint otherwise; the service
\* name used is <prefix>-service-name when the user gave that flag, and
\* otel-jaeger-service-name only when the user did not.
C30_PrefixedFlagsTakePrecedence ==
    (OtelRan /\ OtelProviderFlag = StrJaeger /\ tracerProvider # Null) =>
        /\ tracerProvider.exporter.endpoint =
              IF OtelEndpointFlag # <<>> THEN OtelEndpointFlag
              ELSE otelFlags[FlagJaegerEndpoint]
        /\ tracerProvider.serviceName =
              IF FlagServiceName(otelB) \in otelChanged
              THEN otelFlags[FlagServiceName(otelB)]
              ELSE otelFlags[FlagJaegerServiceName]


(***************************************************************************)
(* Claims about flag names                                                 *)
(***************************************************************************)
\* C27: after RegisterGrpcServerFlags / RegisterHTTPServerFlags with a
\* flagPrefix, the package-level ServerFromFlags and ListenFromFlags called
\* with the same flagPrefix find every flag they look up: neither panics,
\* for every flagPrefix, the empty one included.
C27_PackageFunctionsFindTheirFlags ==
    srvApi = "package" => srvBuildRet # Panic /\ srvRet # Panic


\* C28: two adapters that are given distinct prefixes register disjoint
\* sets of flag names, so registering both on one flag set does not panic;
\* this for any two adapters, two tracing adapters included.
C28_DistinctPrefixesNeverCollide ==
    (Called("RegisterFlags") /\ callArg.first.flagPrefix # callArg.second.flagPrefix) =>
        /\ "panic" \notin DOMAIN callGot
        /\ DOMAIN AdapterRegisterFlags(callArg.first)
              \cap DOMAIN AdapterRegisterFlags(callArg.second) = {}

====
